---- MODULE Spec2Model ----
(***************************************************************************)
(* A/B test analysis: the statistical core (run_t_test,                    *)
(* run_mann_whitney_test, analyze_all_metrics) and the data loader         *)
(* (load_data) of the repository, as a state machine.                      *)
(*                                                                         *)
(* Numbers.  A float is modelled as an exact rational <<n, d>> in lowest   *)
(* terms with d > 0; <<0, 0>> is NaN and <<1, 0>>, <<-1, 0>> are +inf and   *)
(* -inf.  A quantity that is a square root in the code (t_statistic,       *)
(* effect_size) is stored as its signed square sign(x) * x^2, which        *)
(* determines x.  A p-value is a record [lo, hi]: lo = hi is the exact     *)
(* value (NaN included), lo < hi says lo <= p < hi.                         *)
(***************************************************************************)
EXTENDS Integers, Sequences, FiniteSets, TLC

\* ------------------------------------------------------------------ bounds
MaxRows == 5
MaxVal == 0
MaxLoadRows == 4
MaxGroup == 4
MaxMainRows == 4
MaxRuns == 2
MaxMains == 2

\* ------------------------------------------------------------ float model
NaN == <<0, 0>>
PosInf == <<1, 0>>
NegInf == <<-1, 0>>

IsNaN(x) == x = NaN
IsInf(x) == x[2] = 0 /\ x[1] # 0
IsFinite(x) == x[2] # 0

AbsInt(n) == IF n < 0 THEN -n ELSE n
SgnInt(n) == IF n < 0 THEN -1 ELSE IF n > 0 THEN 1 ELSE 0

RECURSIVE GCD(_, _)
GCD(a, b) == IF b = 0 THEN a ELSE GCD(b, a % b)

\* The rational n/d (d # 0) in lowest terms with a positive denominator.
Rat(n, d) ==
    LET g == GCD(AbsInt(n), AbsInt(d))
        s == IF d < 0 THEN -1 ELSE 1
    IN  <<(s * n) \div g, (s * d) \div g>>

RInt(n) == <<n, 1>>
\* Common factors are cancelled before multiplying, to keep the numbers small.
RAdd(x, y) ==
    LET g == GCD(x[2], y[2])
    IN  Rat(x[1] * (y[2] \div g) + y[1] * (x[2] \div g), (x[2] \div g) * y[2])
RSub(x, y) == RAdd(x, <<-y[1], y[2]>>)
RMul(x, y) ==
    LET g == GCD(AbsInt(x[1]), y[2])
        h == GCD(AbsInt(y[1]), x[2])
    IN  IF x[1] = 0 \/ y[1] = 0 THEN <<0, 1>>
        ELSE <<(x[1] \div g) * (y[1] \div h), (x[2] \div h) * (y[2] \div g)>>
\* x / y for y # 0
RDiv(x, y) == RMul(x, IF y[1] < 0 THEN <<-y[2], -y[1]>> ELSE <<y[2], y[1]>>)
RNeg(x) == <<-x[1], x[2]>>
RAbs(x) == <<AbsInt(x[1]), x[2]>>
RSgn(x) == SgnInt(x[1])
RLt(x, y) == x[1] * y[2] < y[1] * x[2]
RLe(x, y) == x[1] * y[2] <= y[1] * x[2]
RZero == RInt(0)
ROne == RInt(1)
\* sign(x) * x^2: the stored form of a value the code gets through a square root
SignedSq(x) == <<RSgn(x) * x[1] * x[1], x[2] * x[2]>>

\* ----------------------------------------------------------------- tables
\* A DataFrame: the column names in order, each column's dtype, and the rows
\* (functions from column name to cell).  Cells of a number column are
\* floats (NaN = missing); cells of an object column are strings or records.
RECURSIVE SelectSeq2(_, _, _)
\* s restricted to the indices i with keep[i], order kept (boolean-mask indexing)
SelectSeq2(s, keep, i) ==
    IF i > Len(s) THEN <<>>
    ELSE (IF keep[i] THEN <<s[i]>> ELSE <<>>) \o SelectSeq2(s, keep, i + 1)

\* as GroupValues, with a missing value counted as zero instead of dropped
GroupValuesMutant(d, g, metric) ==
    LET keep == [r \in 1..Len(d.rows) |-> d.rows[r]["Group"] = g]
        rows == SelectSeq2(d.rows, keep, 1)
    IN  [r \in 1..Len(rows) |->
            IF IsNaN(rows[r][metric]) THEN RZero ELSE rows[r][metric]]
\* as GroupValues, on df.dropna(): without the rows in which the value of
\* any numeric column is missing
GroupValuesRowwiseMutant(d, g, metric) ==
    LET keep == [r \in 1..Len(d.rows) |->
                    /\ d.rows[r]["Group"] = g
                    /\ \A k \in 1..Len(d.columns) :
                          d.dtypes[d.columns[k]] = "number"
                              => ~IsNaN(d.rows[r][d.columns[k]])]
        rows == SelectSeq2(d.rows, keep, 1)
    IN  [r \in 1..Len(rows) |-> rows[r][metric]]
\* df[df['Group'] == g][metric].dropna(): the metric's values of the rows
\* labelled g, in row order, without the missing ones.
GroupValues(d, g, metric) ==
    LET keep == [r \in 1..Len(d.rows) |->
                    d.rows[r]["Group"] = g /\ ~IsNaN(d.rows[r][metric])]
        rows == SelectSeq2(d.rows, keep, 1)
    IN  [r \in 1..Len(rows) |-> rows[r][metric]]

RECURSIVE SumSeq(_)
SumSeq(s) == IF s = <<>> THEN RZero ELSE RAdd(s[1], SumSeq(Tail(s)))

\* Series.mean() of a non-empty series
Mean(s) == RDiv(SumSeq(s), RInt(Len(s)))

\* sum of squared deviations from the mean
SumSqDev(s) ==
    LET m == Mean(s)
    IN  SumSeq([i \in 1..Len(s) |-> RMul(RSub(s[i], m), RSub(s[i], m))])

\* Series.std() ** 2: the sample variance (ddof = 1) of a series of >= 2 values
Variance(s) == RDiv(SumSqDev(s), RInt(Len(s) - 1))

RECURSIVE Insert(_, _)
Insert(x, s) ==
    IF s = <<>> THEN <<x>>
    ELSE IF RLe(x, s[1]) THEN <<x>> \o s
    ELSE <<s[1]>> \o Insert(x, Tail(s))

RECURSIVE SortValues(_)
SortValues(s) == IF s = <<>> THEN <<>> ELSE Insert(s[1], SortValues(Tail(s)))

\* as Median, with the lower middle value for an even count
MedianMutant(s) ==
    LET t == SortValues(s)
    IN  t[(Len(t) + 1) \div 2]
\* Series.median() of a non-empty series
Median(s) ==
    LET t == SortValues(s)
        n == Len(t)
    IN  IF n % 2 = 1 THEN t[(n + 1) \div 2]
        ELSE RDiv(RAdd(t[n \div 2], t[n \div 2 + 1]), RInt(2))

PercentChangeMutant(a, b) ==
    IF a # RZero THEN RMul(RDiv(RSub(b, a), a), RInt(100)) ELSE RZero
\* ((b - a) / a * 100) if a != 0 else np.nan
PercentChange(a, b) ==
    IF a # RZero THEN RMul(RDiv(RSub(b, a), a), RInt(100)) ELSE NaN

\* --------------------------------------------------------------- p-values
PExact(x) == [lo |-> x, hi |-> x]
PNaN == PExact(NaN)
\* The thresholds a p-value is located between: 0 < 0.05 < 0.5 < 1.
Edges == <<RZero, <<1, 20>>, <<1, 2>>, ROne>>
\* The significance levels analyze_all_metrics is called with (default 0.05).
Alphas == {Edges[2], Edges[3]}

\* p_value < alpha on floats: False for NaN; an interval [lo, hi) never
\* straddles a significance level.
PLessMutant(p, a) ==
    IF IsNaN(p.lo) THEN FALSE
    ELSE IF p.lo = p.hi THEN RLe(p.lo, a)
    ELSE RLe(p.hi, a)
PLess(p, a) ==
    IF IsNaN(p.lo) THEN FALSE
    ELSE IF p.lo = p.hi THEN RLt(p.lo, a)
    ELSE RLe(p.hi, a)

\* 1000 * (two-sided critical value)^2 of Student's t with k degrees of
\* freedom, k = 1..14, for the levels Edges[2] = 0.05 and Edges[3] = 0.5.
TCritSq(e, k) ==
    IF e = 2
    THEN <<161448, 18513, 10128, 7709, 6608, 5987, 5591,
           5318, 5117, 4965, 4844, 4747, 4667, 4600>>[k]
    ELSE <<1000, 667, 585, 549, 528, 515, 506,
           499, 494, 490, 486, 484, 481, 479>>[k]
\* the same for the standard normal distribution
ZCritSq(e) == IF e = 2 THEN 3841 ELSE 455

\* sq > c / 1000, for sq >= 0 and c below 200000000
Exceeds(sq, c) ==
    LET q == sq[1] \div sq[2]
        rem == sq[1] % sq[2]
        thousandths == q * 1000 + (rem * 1000) \div sq[2]
    IN  \/ q >= 200000
        \/ thousandths > c
        \/ thousandths = c /\ (rem * 1000) % sq[2] # 0

\* The intervals [Edges[j], Edges[j+1]) that can hold the two-sided p-value
\* of a statistic with square sq > 0, when 1000 * (critical value)^2 for the
\* level Edges[e] lies between few[e] and many[e] (the critical values at the
\* degrees of freedom rounded down and up; they decrease as the degrees of
\* freedom grow).  One interval when few = many.
PIntervals(sq, few, many) ==
    LET CanBeBelow(e) == e = 4 \/ (e \in 2..3 /\ Exceeds(sq, many[e]))
        CanBeAtLeast(e) == e = 1 \/ (e \in 2..3 /\ ~Exceeds(sq, few[e]))
    IN  {[lo |-> Edges[j], hi |-> Edges[j + 1]] :
            j \in {k \in 1..3 : CanBeBelow(k + 1) /\ CanBeAtLeast(k)}}

\* ------------------------------------------------- scipy.stats.ttest_ind
\* vn = s^2 / n of one sample
VarOverN(s) == RDiv(Variance(s), RInt(Len(s)))

\* Welch-Satterthwaite degrees of freedom (both vn zero: scipy uses 1)
WelchDF(a, b) ==
    LET va == VarOverN(a)
        vb == VarOverN(b)
        tot == RAdd(va, vb)
    IN  IF tot = RZero THEN ROne
        ELSE RDiv(RMul(tot, tot),
                  RAdd(RDiv(RMul(va, va), RInt(Len(a) - 1)),
                       RDiv(RMul(vb, vb), RInt(Len(b) - 1))))

Floor(x) == x[1] \div x[2]
Ceil(x) == IF x[1] % x[2] = 0 THEN x[1] \div x[2] ELSE x[1] \div x[2] + 1

\* t = (mean(a) - mean(b)) / sqrt(va + vb), as a signed square; 0/0 is NaN
\* and d/0 is +-inf (numpy division).
TStatistic(a, b) ==
    LET d == RSub(Mean(a), Mean(b))
        se2 == RAdd(VarOverN(a), VarOverN(b))
    IN  IF se2 = RZero
        THEN (IF d = RZero THEN NaN ELSE IF RSgn(d) > 0 THEN PosInf ELSE NegInf)
        ELSE RDiv(SignedSq(d), se2)

\* as TTestPValues, for the one-sided alternative 'less': half the
\* two-sided value for t < 0, one minus that for t > 0
TTestPValuesMutant(a, b) ==
    LET t == TStatistic(a, b)
        dof == WelchDF(a, b)
        Half(x) == RDiv(x, RInt(2))
    IN  IF IsNaN(t) THEN {PNaN}
        ELSE IF IsInf(t) THEN {PExact(IF t = NegInf THEN RZero ELSE ROne)}
        ELSE IF t = RZero THEN {PExact(Half(ROne))}
        ELSE {IF RSgn(t) < 0
              THEN [lo |-> Half(p.lo), hi |-> Half(p.hi)]
              ELSE [lo |-> RSub(ROne, Half(p.hi)), hi |-> RSub(ROne, Half(p.lo))] :
                p \in PIntervals(RAbs(t), [e \in 2..3 |-> TCritSq(e, Floor(dof))],
                                 [e \in 2..3 |-> TCritSq(e, Ceil(dof))])}
\* The two-sided p-values ttest_ind may return for the samples: NaN for a
\* NaN statistic, 0 for an infinite one, 1 for t = 0, else the interval(s)
\* the t distribution with WelchDF degrees of freedom puts it in.
TTestPValues(a, b) ==
    LET t == TStatistic(a, b)
        dof == WelchDF(a, b)
    IN  IF IsNaN(t) THEN {PNaN}
        ELSE IF IsInf(t) THEN {PExact(RZero)}
        ELSE IF t = RZero THEN {PExact(ROne)}
        ELSE PIntervals(RAbs(t), [e \in 2..3 |-> TCritSq(e, Floor(dof))],
                                    [e \in 2..3 |-> TCritSq(e, Ceil(dof))])

\* ---------------------------------------------- scipy.stats.mannwhitneyu
\* as TwiceU1, with the two samples exchanged
TwiceU1Mutant(a, b) ==
    LET Score(i, j) == IF RLt(a[i], b[j]) THEN 2 ELSE IF a[i] = b[j] THEN 1 ELSE 0
        RECURSIVE Row(_, _)
        Row(i, j) == IF j > Len(b) THEN 0 ELSE Score(i, j) + Row(i, j + 1)
        RECURSIVE All(_)
        All(i) == IF i > Len(a) THEN 0 ELSE Row(i, 1) + All(i + 1)
    IN  All(1)
\* 2 * U1, U1 = #{(x, y) : x > y} + #{(x, y) : x = y} / 2 for x in a, y in b
TwiceU1(a, b) ==
    LET Score(i, j) == IF RLt(b[j], a[i]) THEN 2 ELSE IF a[i] = b[j] THEN 1 ELSE 0
        RECURSIVE Row(_, _)
        Row(i, j) == IF j > Len(b) THEN 0 ELSE Score(i, j) + Row(i, j + 1)
        RECURSIVE All(_)
        All(i) == IF i > Len(a) THEN 0 ELSE Row(i, 1) + All(i + 1)
    IN  All(1)

HasTies(a, b) ==
    LET c == a \o b
    IN  \E i, j \in 1..Len(c) : i < j /\ c[i] = c[j]

\* sum over the distinct values of t^3 - t, t the number of times it occurs
TieTerm(a, b) ==
    LET c == a \o b
        vals == {c[i] : i \in 1..Len(c)}
        Cnt(v) == Cardinality({i \in 1..Len(c) : c[i] = v})
        RECURSIVE Sum(_)
        Sum(S) == IF S = {} THEN 0
                  ELSE LET v == CHOOSE x \in S : TRUE
                       IN  Cnt(v) * Cnt(v) * Cnt(v) - Cnt(v) + Sum(S \ {v})
    IN  Sum(vals)

RECURSIVE CountU(_, _, _)
\* the number of arrangements of m and n untied values with U = u
CountU(u, m, n) ==
    IF u < 0 THEN 0
    ELSE IF m = 0 \/ n = 0 THEN (IF u = 0 THEN 1 ELSE 0)
    ELSE CountU(u - n, m - 1, n) + CountU(u, m, n - 1)

RECURSIVE CountUFrom(_, _, _)
\* the number of arrangements with U >= u
CountUFrom(u, m, n) ==
    IF u > m * n THEN 0 ELSE CountU(u, m, n) + CountUFrom(u + 1, m, n)

\* method='auto': exact without ties unless both samples exceed 8
MWUseExact(a, b) == ~HasTies(a, b) /\ ~(Len(a) > 8 /\ Len(b) > 8)

\* The two-sided p-values mannwhitneyu may return: U = max(U1, U2);
\* exact: 2 * P(U' >= U) clipped to 1; asymptotic: 2 * sf(z) clipped to 1,
\* z = (U - n1 n2 / 2 - 1/2) / s with the tie-corrected s (z <= 0 and s = 0
\* both give 1).
MWPValues(a, b) ==
    LET n1 == Len(a)
        n2 == Len(b)
        n == n1 + n2
        u1 == TwiceU1(a, b)
        u2 == 2 * n1 * n2 - u1
        twoU == IF u1 > u2 THEN u1 ELSE u2
        twoNum == twoU - n1 * n2 - 1
        s2den == n1 * n2 * ((n + 1) * n * (n - 1) - TieTerm(a, b))
    IN  IF MWUseExact(a, b)
        THEN LET p == Rat(2 * CountUFrom(twoU \div 2, n1, n2), CountUFrom(0, n1, n2))
             IN  {PExact(IF RLt(ROne, p) THEN ROne ELSE p)}
        ELSE IF twoNum <= 0 \/ s2den = 0 THEN {PExact(ROne)}
        ELSE PIntervals(Rat(3 * twoNum * twoNum * n * (n - 1), s2den),
                        [e \in 2..3 |-> ZCritSq(e)], [e \in 2..3 |-> ZCritSq(e)])

\* ------------------------------------------------------------ run_t_test
TTestError(metric) ==
    [metric |-> metric, test |-> "t-test", error |-> "Insufficient data for t-test"]

\* pooled_std ** 2
PooledVariance(a, b) ==
    RDiv(RAdd(RMul(RInt(Len(a) - 1), Variance(a)),
              RMul(RInt(Len(b) - 1), Variance(b))),
         RInt(Len(a) + Len(b) - 2))

\* as EffectSize, without the abs()
EffectSizeMutant(a, b) ==
    IF RLt(RZero, PooledVariance(a, b))
    THEN RDiv(SignedSq(RSub(Mean(a), Mean(b))), PooledVariance(a, b))
    ELSE RZero
\* abs(mean_a - mean_b) / pooled_std if pooled_std > 0 else 0 (signed square)
EffectSize(a, b) ==
    IF RLt(RZero, PooledVariance(a, b))
    THEN RDiv(SignedSq(RAbs(RSub(Mean(a), Mean(b)))), PooledVariance(a, b))
    ELSE RZero

\* line 31: too little data for the t-test
TTestInsufficientMutant(group_a, group_b) == Len(group_a) < 3 \/ Len(group_b) < 3
TTestInsufficient(group_a, group_b) == Len(group_a) < 2 \/ Len(group_b) < 2

\* The results run_t_test(d, metric, a) may return (one per p-value
\* ttest_ind may return).
RunTTest(d, metric, a) ==
    LET group_a == GroupValues(d, "A", metric)
        group_b == GroupValues(d, "B", metric)
    IN  IF TTestInsufficient(group_a, group_b)
        THEN {TTestError(metric)}
        ELSE {[metric |-> metric,
               test |-> "t-test",
               group_a_mean |-> Mean(group_a),
               group_b_mean |-> Mean(group_b),
               difference |-> RSub(Mean(group_b), Mean(group_a)),
               percent_change |-> PercentChange(Mean(group_a), Mean(group_b)),
               t_statistic |-> TStatistic(group_a, group_b),
               p_value |-> p,
               effect_size |-> EffectSize(group_a, group_b),
               significant |-> PLess(p, a),
               sample_size_a |-> Len(group_a),
               sample_size_b |-> Len(group_b)] :
              p \in TTestPValues(group_a, group_b)}

\* ------------------------------------------------- run_mann_whitney_test
MWError(metric) ==
    [metric |-> metric, test |-> "mann-whitney",
     error |-> "Insufficient data for Mann-Whitney test"]

\* line 80: too little data for the rank test
MWInsufficientMutant(group_a, group_b) == Len(group_a) < 2 \/ Len(group_b) < 2
MWInsufficient(group_a, group_b) == Len(group_a) < 1 \/ Len(group_b) < 1

RunMannWhitney(d, metric, a) ==
    LET group_a == GroupValues(d, "A", metric)
        group_b == GroupValues(d, "B", metric)
    IN  IF MWInsufficient(group_a, group_b)
        THEN {MWError(metric)}
        ELSE {[metric |-> metric,
               test |-> "mann-whitney",
               group_a_median |-> Median(group_a),
               group_b_median |-> Median(group_b),
               difference |-> RSub(Median(group_b), Median(group_a)),
               percent_change |-> PercentChange(Median(group_a), Median(group_b)),
               u_statistic |-> Rat(TwiceU1(group_a, group_b), 2),
               p_value |-> p,
               significant |-> PLess(p, a),
               sample_size_a |-> Len(group_a),
               sample_size_b |-> Len(group_b)] :
              p \in MWPValues(group_a, group_b)}

\* --------------------------------------------------- analyze_all_metrics
\* as NumericMetrics, without the exclusion of the identifier column
NumericMetricsMutant(d) ==
    LET keep == [k \in 1..Len(d.columns) |-> d.dtypes[d.columns[k]] = "number"]
    IN  SelectSeq2(d.columns, keep, 1)
\* [col for col in df.select_dtypes(include=[np.number]).columns
\*  if col != 'User_ID']
NumericMetrics(d) ==
    LET keep == [k \in 1..Len(d.columns) |->
                    d.dtypes[d.columns[k]] = "number" /\ d.columns[k] # "User_ID"]
    IN  SelectSeq2(d.columns, keep, 1)

\* no DataFrame (yet)
NoTable == [columns |-> <<>>, dtypes |-> <<>>, rows |-> <<>>]

EmptyResults == [t_test_results |-> <<>>, mann_whitney_results |-> <<>>]

\* the names in a list of columns
ColumnSet(cols) == {cols[k] : k \in 1..Len(cols)}

\* as SignificantOnes, counting a result without a verdict as significant
SignificantOnesMutant(t_test_results) ==
    LET keep == [k \in 1..Len(t_test_results) |->
                    \/ "significant" \notin DOMAIN t_test_results[k]
                    \/ t_test_results[k].significant]
    IN  SelectSeq2(t_test_results, keep, 1)
\* [r for r in t_test_results if 'significant' in r and r['significant']]
SignificantOnes(t_test_results) ==
    LET keep == [k \in 1..Len(t_test_results) |->
                    /\ "significant" \in DOMAIN t_test_results[k]
                    /\ t_test_results[k].significant]
    IN  SelectSeq2(t_test_results, keep, 1)

\* r['metric'] for r in rs
MetricsOf(rs) == [k \in 1..Len(rs) |-> rs[k].metric]

\* ------------------------------------------------------------- load_data
\* A Time_Spent cell of the CSV file: a missing field (read as a float NaN)
\* or a string.  A string is modelled by what json.loads makes of it: the
\* quote character it uses, whether its text is a dict, another JSON value
\* (a list) or no JSON at all, and the dict's items in order.
MissingCell == [kind |-> "nan", quote |-> "none", json |-> "none", items |-> <<>>]
StrCell(quote, json, items) ==
    [kind |-> "str", quote |-> quote, json |-> json, items |-> items]

\* time_str.replace("'", '"')
ReplaceQuotes(cell) == [cell EXCEPT !.quote = "double"]

\* json.loads(text): "JSONDecodeError" unless the text is JSON, which needs
\* double-quoted keys
JsonLoads(cell) ==
    IF cell.json = "invalid" \/ (cell.json = "dict" /\ cell.quote # "double")
    THEN "JSONDecodeError"
    ELSE cell.json

RECURSIVE SumValues(_)
\* sum(time_dict.values())
SumValues(items) ==
    IF items = <<>> THEN RZero ELSE RAdd(RInt(items[1][2]), SumValues(Tail(items)))

\* time_dict.get(section, np.nan)
DictGet(items, key) ==
    IF \E k \in 1..Len(items) : items[k][1] = key
    THEN RInt(items[CHOOSE k \in 1..Len(items) : items[k][1] = key][2])
    ELSE NaN

\* lines 29-36, parse_time_spent: a float has no .replace and a list has no
\* .values (AttributeError), a bad string raises JSONDecodeError; both are
\* caught and give NaN.
ParseTimeSpent(cell) ==
    IF cell.kind # "str" THEN NaN
    ELSE IF JsonLoads(ReplaceQuotes(cell)) = "dict" THEN SumValues(cell.items)
    ELSE NaN

\* lines 45-48, the lambda of one section: the exception it raises
\* ("none" if none); nothing catches it here
SectionRaises(cell) ==
    IF cell.kind # "str" THEN "none"
    ELSE IF JsonLoads(ReplaceQuotes(cell)) = "JSONDecodeError" THEN "JSONDecodeError"
    ELSE IF JsonLoads(ReplaceQuotes(cell)) # "dict" THEN "AttributeError"
    ELSE "none"

\* lines 45-48, the lambda of one section: its value when it raises nothing
SectionValue(cell, name) ==
    IF cell.kind # "str" THEN NaN ELSE DictGet(cell.items, name)

\* line 42
Sections ==
    <<"data_upload", "data_cleaning", "feature_engineering", "exploratory_analysis">>
SectionColumn(k) ==
    <<"Time_data_upload", "Time_data_cleaning", "Time_feature_engineering",
      "Time_exploratory_analysis">>[k]

\* df[name] = values: a new last column
WithColumn(d, name, values) ==
    [columns |-> Append(d.columns, name),
     dtypes |-> [c \in DOMAIN d.dtypes \cup {name} |->
                    IF c = name THEN "number" ELSE d.dtypes[c]],
     rows |-> [r \in 1..Len(d.rows) |->
                 [c \in DOMAIN d.rows[r] \cup {name} |->
                    IF c = name THEN values[r] ELSE d.rows[r][c]]]]

\* ------------------------------------------------------- Python types
\* The type of every value of the dict run_t_test returns: the pandas and
\* scipy results and the comparison p_value < alpha are numpy scalars,
\* len() is an int, np.nan is a float and the else-branch of effect_size is
\* the int 0.
TTestTypes(d, metric) ==
    LET group_a == GroupValues(d, "A", metric)
        group_b == GroupValues(d, "B", metric)
    IN  IF TTestInsufficient(group_a, group_b)
        THEN [metric |-> "str", test |-> "str", error |-> "str"]
        ELSE [metric |-> "str",
              test |-> "str",
              group_a_mean |-> "np.float64",
              group_b_mean |-> "np.float64",
              difference |-> "np.float64",
              percent_change |-> IF Mean(group_a) # RZero THEN "np.float64" ELSE "float",
              t_statistic |-> "np.float64",
              p_value |-> "np.float64",
              effect_size |-> IF RLt(RZero, PooledVariance(group_a, group_b))
                              THEN "np.float64" ELSE "int",
              significant |-> "np.bool_",
              sample_size_a |-> "int",
              sample_size_b |-> "int"]

\* The type of every value of the dict run_mann_whitney_test returns.
MWTypes(d, metric) ==
    LET group_a == GroupValues(d, "A", metric)
        group_b == GroupValues(d, "B", metric)
    IN  IF MWInsufficient(group_a, group_b)
        THEN [metric |-> "str", test |-> "str", error |-> "str"]
        ELSE [metric |-> "str",
              test |-> "str",
              group_a_median |-> "np.float64",
              group_b_median |-> "np.float64",
              difference |-> "np.float64",
              percent_change |-> IF Median(group_a) # RZero THEN "np.float64" ELSE "float",
              u_statistic |-> "np.float64",
              p_value |-> "np.float64",
              significant |-> "np.bool_",
              sample_size_a |-> "int",
              sample_size_b |-> "int"]

\* ------------------------------------------------------ number formatting
\* A formatted number: the text 'nan' or 'inf' or a decimal numeral, given
\* by its sign character ("", "+" or "-"), the integer its digits spell
\* without the point (units) and the number of digits after the point.
NumText(kind, sign, units, decimals) ==
    [kind |-> kind, sign |-> sign, units |-> units, decimals |-> decimals]

Pow10(k) == <<1, 10, 100, 1000, 10000>>[k + 1]

RECURSIVE IsPow2(_)
\* whether the rational with denominator d is a binary float exactly
IsPow2(d) == d = 1 \/ (d % 2 = 0 /\ IsPow2(d \div 2))

\* as RoundedUnits, rounding every tie up
RoundedUnitsMutant(x, decimals) ==
    LET n == AbsInt(x[1]) * Pow10(decimals)
        q == n \div x[2]
        rem == n % x[2]
    IN  IF 2 * rem < x[2] THEN {q} ELSE {q + 1}
\* |x| * 10^decimals rounded to an integer the way float formatting does:
\* to the nearest, a tie to the even neighbour when x is exactly a binary
\* float; when it is not, the float lies on either side of the tie.
RoundedUnits(x, decimals) ==
    LET n == AbsInt(x[1]) * Pow10(decimals)
        q == n \div x[2]
        rem == n % x[2]
    IN  IF 2 * rem < x[2] THEN {q}
        ELSE IF 2 * rem > x[2] THEN {q + 1}
        ELSE IF IsPow2(x[2]) THEN {IF q % 2 = 0 THEN q ELSE q + 1}
        ELSE {q, q + 1}

\* f"{x:.<decimals>f}": the texts it may give.  plus says the format has the
\* '+' flag (f"{x:+.2f}").
FormatFixed(x, decimals, plus) ==
    LET sign == IF ~IsNaN(x) /\ x[1] < 0 THEN "-" ELSE IF plus THEN "+" ELSE ""
    IN  IF IsNaN(x) THEN {NumText("nan", sign, 0, 0)}
        ELSE IF IsInf(x) THEN {NumText("inf", sign, 0, 0)}
        ELSE {NumText("num", sign, u, decimals) : u \in RoundedUnits(x, decimals)}

\* The p-values a [lo, hi] record stands for that the formatting steps are
\* run on: the value itself, or for an interval its lower end, its middle
\* and a value just below its upper end (which is displayed as the upper
\* end).
PValuePoints(p) ==
    IF p.lo = p.hi THEN {p.lo}
    ELSE {p.lo, RDiv(RAdd(p.lo, p.hi), RInt(2)), p.hi}

\* float(text) of a formatted number
ParseFloat(text) ==
    IF text.kind = "nan" THEN NaN
    ELSE IF text.kind = "inf" THEN (IF text.sign = "-" THEN NegInf ELSE PosInf)
    ELSE Rat((IF text.sign = "-" THEN -1 ELSE 1) * text.units, Pow10(text.decimals))

\* x < y on floats: False when one of them is NaN
FloatLt(x, y) ==
    IF IsNaN(x) \/ IsNaN(y) THEN FALSE
    ELSE IF IsInf(x) \/ IsInf(y)
         THEN (x # y) /\ (x = NegInf \/ y = PosInf)
    ELSE RLt(x, y)

\* ------------------------------------------------------ the report table
\* lines 42-48 (analyze_ab_test.py lines 198-204)
key_metrics ==
    <<"Button_Click_Rate", "Task_Completion_Rate", "Plot_Interactions",
      "Early_Exit_Rate", "Total_Time_Spent">>

\* isinstance(x, (int, float)) by the type of x (bool is a subclass of int,
\* np.float64 of float)
IsIntOrFloat(ty) == ty \in {"int", "float", "bool", "np.float64"}

\* A line of the report: its kind, what distinguishes it from other lines
\* of its kind (cells) and whether characters follow the part of the line
\* that the kind describes (tail: trailing blanks, say).  The kinds are
\*   "head"   | Metric | Group A Mean | ... | Significant? |
\*   "sep"    |---|---|---|---|---|---|
\*   "row"    a line of 7 or more '|' that starts and ends with one
\*   "stats"  ## Statistical Analysis & Results
\*   "viz"    ## Visualizations
\*   "h2", "h3"  another heading of level 2 or 3
\*   "blank", "text", "image"  an empty line, other text, an image link
\* The text of the report is its lines joined by the line terminator.
Line(kind, cells) == [kind |-> kind, cells |-> cells, tail |-> FALSE]
BlankLine == Line("blank", <<>>)
\* a line that is only the characters that followed a table line
TailLine == [kind |-> "text", cells |-> <<>>, tail |-> TRUE]

\* as PercentCell, with a '+' for every value that is not negative
PercentCellMutant(pct_change, ty) ==
    IF IsIntOrFloat(ty)
    THEN {[t EXCEPT !.sign = IF t.sign = "" THEN "+" ELSE t.sign] :
            t \in FormatFixed(pct_change, 2, FALSE)}
    ELSE {NumText("raw", "", 0, 0)}
\* lines 71-72: f"{'+' if pct_change > 0 else ''}{pct_change:.2f}%"
PercentCell(pct_change, ty) ==
    IF IsIntOrFloat(ty)
    THEN {[t EXCEPT !.sign = IF FloatLt(RZero, pct_change) THEN "+" ELSE t.sign] :
            t \in FormatFixed(pct_change, 2, FALSE)}
    ELSE {NumText("raw", "", 0, 0)}

\* lines 65-69: f"{group_a_mean:.2f}"
MeanCell(mean, ty) ==
    IF IsIntOrFloat(ty) THEN FormatFixed(mean, 2, FALSE) ELSE {NumText("raw", "", 0, 0)}

\* lines 74-75: f"{p_value:.4f}"
PValueCell(p_value, ty) ==
    IF IsIntOrFloat(ty)
    THEN UNION {FormatFixed(x, 4, FALSE) : x \in PValuePoints(p_value)}
    ELSE {NumText("raw", "", 0, 0)}

\* lines 57-81: the rows (one of them per choice of texts) of a t-test result
\* that is no error result
RowsOf(result, tys) ==
    {Line("row", <<result.metric, a, b, pct, p,
                   IF result.significant THEN "Yes" ELSE "No">>) :
        a \in MeanCell(result.group_a_mean, tys.group_a_mean),
        b \in MeanCell(result.group_b_mean, tys.group_b_mean),
        pct \in PercentCell(result.percent_change, tys.percent_change),
        p \in PValueCell(result.p_value, tys.p_value)}

\* next((r for r in t_test_results if r['metric'] == metric), None): the
\* position of the result, 0 for None
FindResult(t_test_results, metric) ==
    IF \E k \in 1..Len(t_test_results) : t_test_results[k].metric = metric
    THEN CHOOSE k \in 1..Len(t_test_results) :
            /\ t_test_results[k].metric = metric
            /\ \A j \in 1..(k - 1) : t_test_results[j].metric # metric
    ELSE 0

RECURSIVE TableRowsFrom(_, _, _)
\* lines 50-81: the table_rows lists the loop over key_metrics[m..] may build
TableRowsFrom(t_test_results, tys, m) ==
    IF m > Len(key_metrics) THEN {<<>>}
    ELSE LET k == FindResult(t_test_results, key_metrics[m])
             rest == TableRowsFrom(t_test_results, tys, m + 1)
         IN  IF k # 0 /\ "error" \notin DOMAIN t_test_results[k]
             THEN {<<row>> \o rows : row \in RowsOf(t_test_results[k], tys[k]), rows \in rest}
             ELSE rest
TableRows(t_test_results, tys) == TableRowsFrom(t_test_results, tys, 1)

\* Whether a line matches \|.*\|.*\|.*\|.*\|.*\|.*\| from its first character.
RowLike(line) == line.kind \in {"row", "head", "sep"}

\* re.search(table_pattern, report_content): the line of the first header
\* (the head line, a line terminator and the separator line), 0 if none
FindTable(lines) ==
    LET Header(h) == /\ lines[h].kind = "head" /\ ~lines[h].tail
                     /\ h < Len(lines) /\ lines[h + 1].kind = "sep"
    IN  IF \E h \in 1..Len(lines) : Header(h)
        THEN CHOOSE h \in 1..Len(lines) : Header(h) /\ \A j \in 1..(h - 1) : ~Header(j)
        ELSE 0

\* The last line the match reaches: after the header at h, every following
\* row-like line as long as the line before it ends where its pattern ends.
MatchEnd(lines, h) ==
    LET Reached(e) == \A j \in (h + 2)..e : RowLike(lines[j]) /\ ~lines[j - 1].tail
    IN  CHOOSE e \in (h + 1)..Len(lines) :
            Reached(e) /\ (e = Len(lines) \/ ~Reached(e + 1))

\* as ReplaceTable, keeping what follows from the line after the header on
ReplaceTableMutant(lines, table_rows) ==
    LET h == FindTable(lines)
    IN  SubSeq(lines, 1, h + 1) \o table_rows \o SubSeq(lines, h + 2, Len(lines))
\* lines 93-97: report_content[:start] + header + "\n" + "\n".join(rows)
\* + report_content[end:], for a report with a header.  What followed the
\* match on its last line follows the last new line.
ReplaceTable(lines, table_rows) ==
    LET h == FindTable(lines)
        e == MatchEnd(lines, h)
        new == IF table_rows = <<>> THEN <<BlankLine>> ELSE table_rows
        last == IF lines[e].tail
                THEN (IF table_rows = <<>> THEN TailLine
                      ELSE [new[Len(new)] EXCEPT !.tail = TRUE])
                ELSE new[Len(new)]
    IN  SubSeq(lines, 1, h) \o <<[lines[h + 1] EXCEPT !.tail = FALSE]>>
            \o SubSeq(new, 1, Len(new) - 1) \o <<last>>
            \o SubSeq(lines, e + 1, Len(lines))

\* ------------------------------------------- the Visualizations section
\* f"metric_{metric.lower()}": the name of the chart of a metric
MetricFigure ==
    [Task_Completion_Rate |-> "metric_task_completion_rate",
     Button_Click_Rate |-> "metric_button_click_rate",
     Plot_Interactions |-> "metric_plot_interactions",
     Early_Exit_Rate |-> "metric_early_exit_rate",
     Error_Rate |-> "metric_error_rate",
     Module_Navigation_Depth |-> "metric_module_navigation_depth",
     Total_Time_Spent |-> "metric_total_time_spent",
     Time_data_upload |-> "metric_time_data_upload",
     Time_data_cleaning |-> "metric_time_data_cleaning",
     Time_feature_engineering |-> "metric_time_feature_engineering",
     Time_exploratory_analysis |-> "metric_time_exploratory_analysis"]
\* the charts of single metrics, in the order the model lists them
MetricFigureOrder ==
    <<"metric_button_click_rate", "metric_early_exit_rate", "metric_error_rate",
      "metric_module_navigation_depth", "metric_plot_interactions",
      "metric_task_completion_rate", "metric_time_data_cleaning",
      "metric_time_data_upload", "metric_time_exploratory_analysis",
      "metric_time_feature_engineering", "metric_total_time_spent">>

\* analyze_ab_test.py lines 278-296: the block of a summary chart, if its
\* image is there
FigureBlock(name, png_files) ==
    IF name \in png_files
    THEN <<Line("h3", <<name>>), BlankLine, Line("image", <<name>>), BlankLine,
           Line("text", <<name>>), BlankLine>>
    ELSE <<>>

\* lines 299-304: the blocks of the charts of single metrics the section may
\* get.  individual_metrics[:3] are the first three in the order of the
\* directory listing, which is any order: any three of them (all, if there
\* are no more).  The model writes the chosen ones in MetricFigureOrder.
IndividualBlocks(png_files) ==
    LET individual == {k \in 1..Len(MetricFigureOrder) : MetricFigureOrder[k] \in png_files}
        take == IF Cardinality(individual) < 3 THEN Cardinality(individual) ELSE 3
        Images(chosen) ==
            LET keep == [k \in 1..Len(MetricFigureOrder) |-> k \in chosen]
                names == SelectSeq2(MetricFigureOrder, keep, 1)
                pair == [j \in 1..(2 * Len(names)) |->
                            IF j % 2 = 1 THEN Line("image", <<names[(j + 1) \div 2]>>)
                            ELSE BlankLine]
            IN  pair
    IN  IF individual = {} THEN {<<>>}
        ELSE {<<Line("h3", <<"individual">>), BlankLine>> \o Images(chosen) :
                chosen \in {c \in SUBSET individual : Cardinality(c) = take}}

\* lines 272-304: viz_section split at its line terminators.  Its first
\* piece continues the line it is inserted in and its last piece (both are
\* empty) begins the line that follows.
VizSections(png_files) ==
    {<<BlankLine, BlankLine, Line("viz", <<>>), BlankLine, Line("text", <<"intro">>), BlankLine>>
        \o FigureBlock("metrics_overview", png_files)
        \o FigureBlock("significant_metrics", png_files)
        \o FigureBlock("time_spent", png_files)
        \o FigureBlock("engagement_funnel", png_files)
        \o blocks
        \o <<BlankLine>> : blocks \in IndividualBlocks(png_files)}

\* "## Visualizations" in report_content
HasVisualizations(lines) == \E k \in 1..Len(lines) : lines[k].kind = "viz"

\* a line in which "##" occurs: a heading of level 2 or 3
HasHashes(line) == line.kind \in {"stats", "viz", "h2", "h3"}

\* lines 259-269: the line before whose first character the section is
\* inserted; Len(lines) + 1 for the end of the report
InsertLine(lines) ==
    LET Stats(k) == lines[k].kind = "stats"
        stats_section == IF \E k \in 1..Len(lines) : Stats(k)
                         THEN CHOOSE k \in 1..Len(lines) :
                                Stats(k) /\ \A j \in 1..(k - 1) : ~Stats(j)
                         ELSE 0
        Next2(j) == j > stats_section /\ HasHashes(lines[j])
    IN  IF stats_section = 0 THEN Len(lines) + 1
        ELSE IF \E j \in 1..Len(lines) : Next2(j)
             THEN CHOOSE j \in 1..Len(lines) : Next2(j) /\ \A k \in 1..(j - 1) : ~Next2(k)
             ELSE Len(lines) + 1

\* as WithVisualizations, inserting the section whether or not the heading
\* is already there
WithVisualizationsMutant(lines, viz_section) ==
    LET at == InsertLine(lines)
        m == Len(viz_section)
    IN  IF at > Len(lines)
        THEN lines \o SubSeq(viz_section, 2, m)
        ELSE SubSeq(lines, 1, at - 1) \o SubSeq(viz_section, 1, m - 1)
                \o SubSeq(lines, at, Len(lines))
\* lines 257-311: report_content[:insert_pos] + viz_section
\* + report_content[insert_pos:] when the heading is not in the report
WithVisualizations(lines, viz_section) ==
    LET at == InsertLine(lines)
        m == Len(viz_section)
    IN  IF HasVisualizations(lines) THEN lines
        ELSE IF at > Len(lines)
        THEN lines \o SubSeq(viz_section, 2, m)
        ELSE SubSeq(lines, 1, at - 1) \o SubSeq(viz_section, 1, m - 1)
                \o SubSeq(lines, at, Len(lines))

\* open(report_path, 'w') and f.write(text): the file holds the lines,
\* ended the way the platform ends lines (POSIX: "\n")
WrittenReport(lines) == [exists |-> TRUE, newline |-> "LF", lines |-> lines]

\* ------------------------------------------------------- chart emitters
\* metric.replace('_', ' ')
Spaced ==
    [Task_Completion_Rate |-> "Task Completion Rate",
     Button_Click_Rate |-> "Button Click Rate",
     Plot_Interactions |-> "Plot Interactions",
     Early_Exit_Rate |-> "Early Exit Rate",
     Error_Rate |-> "Error Rate",
     Module_Navigation_Depth |-> "Module Navigation Depth",
     Total_Time_Spent |-> "Total Time Spent",
     Time_data_upload |-> "Time data upload",
     Time_data_cleaning |-> "Time data cleaning",
     Time_feature_engineering |-> "Time feature engineering",
     Time_exploratory_analysis |-> "Time exploratory analysis"]

\* df[df['Group'] == g][metric].mean(): missing values are skipped, NaN
\* when nothing is left
GroupMean(d, g, metric) ==
    IF GroupValues(d, g, metric) = <<>> THEN NaN ELSE Mean(GroupValues(d, g, metric))

\* as ChartPercentChange, dividing by group_a as run_t_test does
ChartPercentChangeMutant(group_a, group_b) ==
    IF group_a = RZero THEN RZero
    ELSE IF IsNaN(group_a) \/ IsNaN(group_b) THEN NaN
    ELSE RMul(RDiv(RSub(group_b, group_a), group_a), RInt(100))
\* visualization.py lines 311-314 and 427-430:
\* ((group_b - group_a) / abs(group_a)) * 100 if group_a != 0 else 0
ChartPercentChange(group_a, group_b) ==
    IF group_a = RZero THEN RZero
    ELSE IF IsNaN(group_a) \/ IsNaN(group_b) THEN NaN
    ELSE RMul(RDiv(RSub(group_b, group_a), RAbs(group_a)), RInt(100))

\* lines 291-296
DefaultMetrics ==
    <<"Task_Completion_Rate", "Button_Click_Rate", "Plot_Interactions", "Early_Exit_Rate">>

\* lines 306-319: sig_data
SigData(d, significant_metrics) ==
    [k \in 1..Len(significant_metrics) |->
        [Metric |-> Spaced[significant_metrics[k]],
         change |-> ChartPercentChange(GroupMean(d, "A", significant_metrics[k]),
                                       GroupMean(d, "B", significant_metrics[k]))]]

\* what an emitter returns: "figure" with its rows, "none" (None) or
\* "raised" for an exception, with the source of the results it used
\* ("file", "default", "computed") and the document it read from the file
Emitted(state, source, read, rows) ==
    [state |-> state, source |-> source, read |-> read, rows |-> rows]

\* create_significant_metrics_chart(df), lines 278-319
SignificantMetricsChart(d, file) ==
    LET significant_metrics ==
            IF file.exists THEN MetricsOf(SignificantOnes(file.values.t_test_results))
            ELSE DefaultMetrics
        source == IF file.exists THEN "file" ELSE "default"
    IN  IF file.exists /\ ~file.valid
        THEN Emitted("raised", "file", EmptyResults, <<>>)
        ELSE IF significant_metrics = <<>>
        THEN Emitted("none", source, file.values, <<>>)
        ELSE IF \E k \in 1..Len(significant_metrics) :
                    significant_metrics[k] \notin ColumnSet(d.columns)
        THEN Emitted("raised", source, file.values, <<>>)
        ELSE Emitted("figure", source, file.values, SigData(d, significant_metrics))

\* lines 395-412: the results the table computes itself when there is no
\* results file (the values and their types)
BasicResults(d) ==
    LET names == NumericMetrics(d)
        keep == [k \in 1..Len(names) |->
                    /\ Len(GroupValues(d, "A", names[k])) >= 2
                    /\ Len(GroupValues(d, "B", names[k])) >= 2]
        tested == SelectSeq2(names, keep, 1)
    IN  {[k \in 1..Len(tested) |->
            [metric |-> tested[k],
             group_a_mean |-> Mean(GroupValues(d, "A", tested[k])),
             group_b_mean |-> Mean(GroupValues(d, "B", tested[k])),
             p_value |-> ps[k],
             significant |-> PLess(ps[k], Edges[2])]] :
          ps \in {f \in [1..Len(tested) ->
                            UNION {TTestPValues(GroupValues(d, "A", tested[k]),
                                                GroupValues(d, "B", tested[k])) :
                                    k \in 1..Len(tested)}] :
                    \A k \in 1..Len(tested) :
                        f[k] \in TTestPValues(GroupValues(d, "A", tested[k]),
                                              GroupValues(d, "B", tested[k]))}}

\* lines 417-440: the table_data entries of a result that is no error
\* result (one per choice of texts)
TableDataOf(result) ==
    {[Metric |-> Spaced[result.metric],
      GroupA |-> a, GroupB |-> b, Difference |-> diff, Change |-> change,
      PValue |-> p,
      Significant |-> IF "significant" \in DOMAIN result /\ result.significant
                      THEN "Yes" ELSE "No"] :
        a \in FormatFixed(result.group_a_mean, 2, FALSE),
        b \in FormatFixed(result.group_b_mean, 2, FALSE),
        diff \in FormatFixed(RSub(result.group_b_mean, result.group_a_mean), 2, TRUE),
        change \in FormatFixed(ChartPercentChange(result.group_a_mean, result.group_b_mean),
                               2, TRUE),
        p \in UNION {FormatFixed(x, 4, FALSE) : x \in PValuePoints(result.p_value)}}

RECURSIVE TableDataFrom(_, _)
\* lines 415-440: the table_data lists the loop over t_test_results[k..]
\* may build
TableDataFrom(t_test_results, k) ==
    IF k > Len(t_test_results) THEN {<<>>}
    ELSE LET rest == TableDataFrom(t_test_results, k + 1)
         IN  IF "error" \notin DOMAIN t_test_results[k]
             THEN {<<row>> \o rows : row \in TableDataOf(t_test_results[k]), rows \in rest}
             ELSE rest

\* line 443, the sort key of a row and the order of two keys: tuples are
\* compared by their first items that are not equal, and a NaN is neither
\* equal to nor less than anything
KeyLt(x, y) ==
    LET kx == IF x.Significant = "Yes" THEN 0 ELSE 1
        ky == IF y.Significant = "Yes" THEN 0 ELSE 1
    IN  kx < ky \/ (kx = ky /\ FloatLt(ParseFloat(x.PValue), ParseFloat(y.PValue)))

RECURSIVE CountRun(_, _, _)
\* list.sort, count_run: the length of the run that starts the list, which
\* is strictly descending (descending = TRUE) or not descending
CountRun(a, n, descending) ==
    IF n = Len(a) THEN n
    ELSE IF descending = KeyLt(a[n + 1], a[n]) THEN CountRun(a, n + 1, descending)
    ELSE n

Reverse(a) == [k \in 1..Len(a) |-> a[Len(a) + 1 - k]]

RECURSIVE BinaryPos(_, _, _, _)
\* list.sort, binarysort: where the pivot goes in the sorted a[l+1..r]
BinaryPos(a, pivot, l, r) ==
    IF l >= r THEN l
    ELSE LET q == l + (r - l) \div 2
         IN  IF KeyLt(pivot, a[q + 1]) THEN BinaryPos(a, pivot, l, q)
             ELSE BinaryPos(a, pivot, q + 1, r)

RECURSIVE BinarySort(_, _)
\* list.sort, binarysort: a[1..start] is sorted; insert the others one by one
BinarySort(a, start) ==
    IF start >= Len(a) THEN a
    ELSE LET pivot == a[start + 1]
             l == BinaryPos(a, pivot, 0, start)
         IN  BinarySort(SubSeq(a, 1, l) \o <<pivot>> \o SubSeq(a, l + 1, start)
                            \o SubSeq(a, start + 2, Len(a)),
                        start + 1)

\* as Sorted, leaving the list in the order it has
SortedMutant(a) == a
\* sorted(table_data, key=...) for a list of fewer than 64 items: the first
\* run, reversed when it descends, and binary insertion of the rest
Sorted(a) ==
    IF Len(a) < 2 THEN a
    ELSE LET descending == KeyLt(a[2], a[1])
             n == CountRun(a, 2, descending)
             run == IF descending THEN Reverse(SubSeq(a, 1, n)) ELSE SubSeq(a, 1, n)
         IN  BinarySort(run \o SubSeq(a, n + 1, Len(a)), n)

\* create_statistical_significance_table(df), lines 385-484: what it may
\* return.  table_data[0] raises IndexError when table_data is empty.
SignificanceTables(d, file) ==
    IF file.exists /\ ~file.valid
    THEN {Emitted("raised", "file", EmptyResults, <<>>)}
    ELSE LET source == IF file.exists THEN "file" ELSE "computed"
             lists == IF file.exists THEN {file.values.t_test_results}
                      ELSE BasicResults(d)
         IN  {IF table_data = <<>>
              THEN Emitted("raised", source, file.values, <<>>)
              ELSE Emitted("figure", source, file.values, Sorted(table_data)) :
                table_data \in UNION {TableDataFrom(t_test_results, 1) :
                                        t_test_results \in lists}}

\* ---------------------------------------------------------- save_results
\* The numpy types the isinstance tests of convert_np name (lines 154-161).
NpIntTypes ==
    {"np.int_", "np.intc", "np.intp", "np.int8", "np.int16", "np.int32", "np.int64",
     "np.uint8", "np.uint16", "np.uint32", "np.uint64"}
NpFloatTypes == {"np.float_", "np.float16", "np.float32", "np.float64"}

\* as ConvertLeaf, without the np.bool_ branch
ConvertLeafMutant(ty) ==
    IF ty \in NpIntTypes THEN "int"
    ELSE IF ty \in NpFloatTypes THEN "float"
    ELSE IF ty = "np.ndarray" THEN "list"
    ELSE ty
\* convert_np on a value that is no dict and no list: the type of what it
\* returns (int(), float(), tolist() and bool() keep the value)
ConvertLeaf(ty) ==
    IF ty \in NpIntTypes THEN "int"
    ELSE IF ty \in NpFloatTypes THEN "float"
    ELSE IF ty = "np.ndarray" THEN "list"
    ELSE IF ty = "np.bool_" THEN "bool"
    ELSE ty

\* convert_np on the ResultSet: a dict of lists of dicts, converted key by
\* key and item by item (keys and order are kept)
ConvertNp(ts) ==
    [k \in DOMAIN ts |->
        [j \in 1..Len(ts[k]) |->
            [f \in DOMAIN ts[k][j] |-> ConvertLeaf(ts[k][j][f])]]]

\* The types json.dump can write: the Python types and their subclasses
\* (np.float64 is a subclass of float); for any other type it raises
\* TypeError.
JsonWritable(ty) == ty \in {"str", "int", "float", "bool", "np.float64"}
\* the type json.load gives back for a value written from type ty
JsonType(ty) == IF ty = "np.float64" THEN "float" ELSE ty

AllWritable(ts) ==
    \A k \in DOMAIN ts : \A j \in 1..Len(ts[k]) : \A f \in DOMAIN ts[k][j] :
        JsonWritable(ts[k][j][f])

\* A results file: whether it exists, whether its text is a complete JSON
\* document, and the document json.load returns (values and their types).
NoFile == [exists |-> FALSE, valid |-> FALSE, values |-> EmptyResults, types |-> EmptyResults]
\* the file after open(path, 'w') and a json.dump that raised part-way
BrokenFile == [exists |-> TRUE, valid |-> FALSE, values |-> EmptyResults, types |-> EmptyResults]
JsonFile(values, ts) ==
    [exists |-> TRUE, valid |-> TRUE, values |-> values,
     types |-> [k \in DOMAIN ts |->
                  [j \in 1..Len(ts[k]) |->
                      [f \in DOMAIN ts[k][j] |-> JsonType(ts[k][j][f])]]]]

VARIABLES
    raw,      \* the rows of the CSV file load_data reads
    df,       \* the DataFrame (after load_data; the argument of analyze_all_metrics)
    alpha,    \* the significance level analyze_all_metrics was given
    metrics,  \* analyze_all_metrics: the metric names in iteration order
    section,  \* load_data: how many section columns have been added
    i,        \* analyze_all_metrics: how many metrics the loop has handled
    results,  \* analyze_all_metrics: the ResultSet being built
    pc,       \* where the program is
    types,    \* the Python type of every value of results
    console,  \* run_statistical_tests: the metrics printed as significant
    results_file,  \* reports/statistical_results.json
    report,   \* reports/final_report.md
    figures,  \* the names of the images in reports/figures
    chart,    \* what create_significant_metrics_chart last returned
    table,    \* what create_statistical_significance_table last returned
    runs,     \* how often update_report_tables.py has been run
    mains     \* how often analyze_ab_test.py has been run again

\* the state of the steps after analyze_all_metrics
down == <<types, console, results_file, report, figures, chart, table, runs, mains>>

vars == <<raw, df, alpha, section, metrics, i, results, pc,
          types, console, results_file, report, figures, chart, table, runs, mains>>

\* lines 26-39: read the file and add Total_Time_Spent
ParseTotalTime ==
    /\ pc = "load"
    /\ df' = WithColumn(raw, "Total_Time_Spent",
                        [r \in 1..Len(raw.rows) |->
                            ParseTimeSpent(raw.rows[r]["Time_Spent"])])
    /\ section' = 0
    /\ pc' = "sections"
    /\ UNCHANGED <<raw, alpha, metrics, i, results>>
    /\ UNCHANGED down

\* lines 44-48: one iteration of the loop over the sections; an exception
\* of the lambda leaves load_data
ExtractSection ==
    /\ pc = "sections"
    /\ section < Len(Sections)
    /\ LET values == [r \in 1..Len(df.rows) |->
                         SectionValue(df.rows[r]["Time_Spent"], Sections[section + 1])]
       IN  IF \E r \in 1..Len(df.rows) : SectionRaises(df.rows[r]["Time_Spent"]) # "none"
           THEN /\ pc' = "raised"
                /\ UNCHANGED <<df, section>>
           ELSE /\ df' = WithColumn(df, SectionColumn(section + 1), values)
                /\ section' = section + 1
                /\ pc' = pc
    /\ UNCHANGED <<raw, alpha, metrics, i, results>>
    /\ UNCHANGED down

\* line 50: return df; the pipeline passes it to analyze_all_metrics
ReturnTable ==
    /\ pc = "sections"
    /\ section = Len(Sections)
    /\ pc' = "analyze"
    /\ UNCHANGED <<raw, df, alpha, section, metrics, i, results>>
    /\ UNCHANGED down

\* lines 118-124: the metric list and the two empty result lists
SelectMetrics ==
    /\ pc = "analyze"
    /\ metrics' = NumericMetrics(df)
    /\ results' = EmptyResults
    /\ types' = EmptyResults
    /\ i' = 0
    /\ pc' = "loop"
    /\ UNCHANGED <<raw, df, alpha, section>>
    /\ UNCHANGED <<console, results_file, report, figures, chart, table, runs, mains>>

\* lines 126-132: one iteration of the loop over the metrics
AnalyzeMetric ==
    /\ pc = "loop"
    /\ i < Len(metrics)
    /\ \E t_test_result \in RunTTest(df, metrics[i + 1], alpha),
          mw_test_result \in RunMannWhitney(df, metrics[i + 1], alpha) :
            results' = [t_test_results |->
                            Append(results.t_test_results, t_test_result),
                        mann_whitney_results |->
                            Append(results.mann_whitney_results, mw_test_result)]
    /\ types' = [t_test_results |->
                    Append(types.t_test_results, TTestTypes(df, metrics[i + 1])),
                 mann_whitney_results |->
                    Append(types.mann_whitney_results, MWTypes(df, metrics[i + 1]))]
    /\ i' = i + 1
    /\ UNCHANGED <<raw, df, alpha, section, metrics, pc>>
    /\ UNCHANGED <<console, results_file, report, figures, chart, table, runs, mains>>

\* line 134: return results
ReturnResults ==
    /\ pc = "loop"
    /\ i = Len(metrics)
    /\ pc' = "analyzed"
    /\ UNCHANGED <<raw, df, alpha, section, metrics, i, results>>
    /\ UNCHANGED down

\* The state of the later steps before they have run.
NoReport == [exists |-> FALSE, newline |-> "LF", lines |-> <<>>]
NotRun == Emitted("not run", "none", EmptyResults, <<>>)

InitDown ==
    /\ types = EmptyResults
    /\ console = <<>>
    /\ results_file = NoFile
    /\ report = NoReport
    /\ figures = {}
    /\ chart = NotRun
    /\ table = NotRun
    /\ runs = 0
    /\ mains = 0

\* as SaveResults, keeping a results file that is already there
SaveResultsMutant ==
    /\ pc = "analyzed"
    /\ console' = MetricsOf(SignificantOnes(results.t_test_results))
    /\ results_file' = IF results_file.exists THEN results_file
                       ELSE JsonFile(results, ConvertNp(types))
    /\ pc' = "saved"
    /\ UNCHANGED <<raw, df, alpha, section, metrics, i, results>>
    /\ UNCHANGED <<types, report, figures, chart, table, runs, mains>>
\* analyze_ab_test.py lines 89-112, run_statistical_tests after
\* analyze_all_metrics: print the significant findings and save_results
\* (statistical_tests.py lines 137-172)
SaveResults ==
    /\ pc = "analyzed"
    /\ console' = MetricsOf(SignificantOnes(results.t_test_results))
    /\ IF AllWritable(ConvertNp(types))
       THEN /\ results_file' = JsonFile(results, ConvertNp(types))
            /\ pc' = "saved"
       ELSE /\ results_file' = BrokenFile
            /\ pc' = "raised"
    /\ UNCHANGED <<raw, df, alpha, section, metrics, i, results>>
    /\ UNCHANGED <<types, report, figures, chart, table, runs, mains>>

\* analyze_ab_test.py lines 132-154, generate_visualizations: the overview,
\* the charts of the significant metrics, the time chart and the funnel,
\* each saved under its name.  A column a chart needs and the table lacks
\* raises KeyError.
ChartColumns ==
    {"Group", "Task_Completion_Rate", "Button_Click_Rate", "Plot_Interactions",
     "Early_Exit_Rate", "Total_Time_Spent", "Module_Navigation_Depth",
     "Time_data_upload", "Time_data_cleaning", "Time_feature_engineering",
     "Time_exploratory_analysis"}

CreateCharts ==
    /\ pc = "saved"
    /\ LET significant_metrics == MetricsOf(SignificantOnes(results.t_test_results))
       IN  IF ChartColumns \subseteq ColumnSet(df.columns)
           THEN /\ figures' = figures
                      \cup {"metrics_overview", "time_spent", "engagement_funnel"}
                      \cup {MetricFigure[significant_metrics[k]] :
                              k \in 1..Len(significant_metrics)}
                /\ pc' = "charts"
           ELSE /\ pc' = "raised"
                /\ UNCHANGED figures
    /\ UNCHANGED <<raw, df, alpha, section, metrics, i, results>>
    /\ UNCHANGED <<types, console, results_file, report, chart, table, runs, mains>>

\* lines 156-160: create_significant_metrics_chart(df) and, if it returns a
\* figure, save_figure
CreateSignificantMetricsChart ==
    /\ pc = "charts"
    /\ chart' = SignificantMetricsChart(df, results_file)
    /\ figures' = IF chart'.state = "figure" THEN figures \cup {"significant_metrics"}
                  ELSE figures
    /\ pc' = IF chart'.state = "raised" THEN "raised" ELSE "charted"
    /\ UNCHANGED <<raw, df, alpha, section, metrics, i, results>>
    /\ UNCHANGED <<types, console, results_file, report, table, runs, mains>>

\* lines 162-171: create_statistical_significance_table(df) and save_figure
CreateStatisticalSignificanceTable ==
    /\ pc = "charted"
    /\ table' \in SignificanceTables(df, results_file)
    /\ figures' = IF table'.state = "figure" THEN figures \cup {"statistical_table"}
                  ELSE figures
    /\ pc' = IF table'.state = "raised" THEN "raised" ELSE "tabled"
    /\ UNCHANGED <<raw, df, alpha, section, metrics, i, results>>
    /\ UNCHANGED <<types, console, results_file, report, chart, runs, mains>>

\* as UpdateFinalReport, taking a missing report for an empty one
UpdateFinalReportMutant ==
    /\ pc = "tabled"
    /\ \E table_rows \in TableRows(results.t_test_results, types.t_test_results),
          viz_section \in VizSections(figures) :
         LET found == FindTable(report.lines) # 0
             replaced == IF found THEN ReplaceTable(report.lines, table_rows)
                         ELSE report.lines
         IN  report' = WrittenReport(WithVisualizations(replaced, viz_section))
    /\ pc' = "done"
    /\ UNCHANGED <<raw, df, alpha, section, metrics, i, results>>
    /\ UNCHANGED <<types, console, results_file, figures, chart, table, runs, mains>>
\* lines 174-317, update_final_report(html_files, png_files, results), and
\* the rest of main (lines 344-364), which changes nothing
UpdateFinalReport ==
    /\ pc = "tabled"
    /\ IF ~report.exists
       THEN UNCHANGED report
       ELSE \E table_rows \in TableRows(results.t_test_results, types.t_test_results),
               viz_section \in VizSections(figures) :
              LET found == FindTable(report.lines) # 0
                  replaced == IF found THEN ReplaceTable(report.lines, table_rows)
                              ELSE report.lines
              IN  report' = WrittenReport(WithVisualizations(replaced, viz_section))
    /\ pc' = "done"
    /\ UNCHANGED <<raw, df, alpha, section, metrics, i, results>>
    /\ UNCHANGED <<types, console, results_file, figures, chart, table, runs, mains>>

\* update_report_tables.py, main: update_results_table on the two files,
\* run as a program of its own when the pipeline is not running.  A results
\* file that is no JSON document makes json.load raise.
UpdateResultsTable ==
    /\ pc \in {"done", "raised"}
    /\ runs < MaxRuns
    /\ runs' = runs + 1
    /\ UNCHANGED mains
    /\ IF ~report.exists \/ ~results_file.exists \/ ~results_file.valid
          \/ FindTable(report.lines) = 0
       THEN UNCHANGED report
       ELSE \E table_rows \in TableRows(results_file.values.t_test_results,
                                        results_file.types.t_test_results) :
              report' = WrittenReport(ReplaceTable(report.lines, table_rows))
    /\ UNCHANGED <<raw, df, alpha, section, metrics, i, results, pc>>
    /\ UNCHANGED <<types, console, results_file, figures, chart, table>>

\* ---------------------------------------------------------------- inputs
NumberCells == {NaN} \cup {RInt(v) : v \in -1..MaxVal}
GroupLabels == {"A", "B", "C"}

\* Two shapes of an input table: the identifier column first or in the
\* middle, without and with a further text column, and Button_Click_Rate
\* either the row number (all values distinct) or missing in every row.
Shapes ==
    {[cols |-> <<"User_ID", "Group", "Task_Completion_Rate", "Button_Click_Rate">>,
      clicks |-> "index"],
     [cols |-> <<"Group", "Button_Click_Rate", "User_ID", "Device",
                 "Task_Completion_Rate">>,
      clicks |-> "missing"]}

Dtypes ==
    [User_ID |-> "number", Group |-> "object", Device |-> "object",
     Task_Completion_Rate |-> "number", Button_Click_Rate |-> "number",
     Plot_Interactions |-> "number", Early_Exit_Rate |-> "number",
     Module_Navigation_Depth |-> "number",
     Time_Spent |-> "object", Total_Time_Spent |-> "number",
     Time_data_upload |-> "number", Time_data_cleaning |-> "number",
     Time_feature_engineering |-> "number",
     Time_exploratory_analysis |-> "number"]

\* The tables of n rows with the given columns: Group and
\* Task_Completion_Rate free in every row.
Tables(cols, n, clicks) ==
    {[columns |-> cols,
      dtypes |-> [c \in ColumnSet(cols) |-> Dtypes[c]],
      rows |-> [r \in 1..n |->
                  [c \in ColumnSet(cols) |->
                      CASE c = "User_ID" -> RInt(r)
                        [] c = "Group" -> g[r]
                        [] c = "Device" -> "desktop"
                        [] c = "Task_Completion_Rate" -> v[r]
                        [] c = "Button_Click_Rate" ->
                              IF clicks = "missing" THEN NaN ELSE RInt(r)]]] :
        g \in [1..n -> GroupLabels], v \in [1..n -> NumberCells]}

Init ==
    /\ raw = NoTable
    /\ \E shape \in Shapes, n \in 0..MaxRows :
          df \in Tables(shape.cols, n, shape.clicks)
    /\ alpha \in Alphas
    /\ section = 0
    /\ metrics = <<>>
    /\ i = 0
    /\ results = EmptyResults
    /\ pc = "analyze"
    /\ InitDown

Next == SelectMetrics \/ AnalyzeMetric \/ ReturnResults

Spec == Init /\ [][Next]_vars

\* The Time_Spent cells of the input files: missing, no JSON, a JSON list,
\* and two dicts (Python repr with single quotes; JSON with a key that is
\* no section).
TimeCells ==
    {MissingCell,
     StrCell("double", "invalid", <<>>),
     StrCell("double", "list", <<>>),
     StrCell("single", "dict", <<<<"data_upload", 1>>, <<"data_cleaning", 2>>>>),
     StrCell("double", "dict", <<<<"exploratory_analysis", 3>>, <<"other", 1>>>>)}

RawColumns == <<"User_ID", "Group", "Task_Completion_Rate", "Time_Spent">>

RawTables(n) ==
    {[columns |-> RawColumns,
      dtypes |-> [c \in ColumnSet(RawColumns) |-> Dtypes[c]],
      rows |-> [r \in 1..n |->
                  [User_ID |-> RInt(r), Group |-> g[r],
                   Task_Completion_Rate |-> RInt(r), Time_Spent |-> t[r]]]] :
        g \in [1..n -> {"A", "B"}], t \in [1..n -> TimeCells]}

\* The pipeline: load_data on a file, then analyze_all_metrics(df) with the
\* default alpha.
InitLoad ==
    /\ \E n \in 1..MaxLoadRows : raw \in RawTables(n)
    /\ df = NoTable
    /\ alpha = Edges[2]
    /\ section = 0
    /\ metrics = <<>>
    /\ i = 0
    /\ results = EmptyResults
    /\ pc = "load"
    /\ InitDown

NextLoad == ParseTotalTime \/ ExtractSection \/ ReturnTable \/ Next

SpecLoad == InitLoad /\ [][NextLoad]_vars

\* The values of a group of k rows: all distinct, all equal, or one value
\* below k - 1 equal ones; shifted by off.
GroupPattern(kind, k, off) ==
    [r \in 1..k |->
        RInt(off + (CASE kind = "distinct" -> r
                      [] kind = "constant" -> 1
                      [] OTHER -> IF r = 1 THEN 0 ELSE 1))]

\* The tables with complete separation: na rows of group A and nb rows of
\* group B, every value of the group named low below every value of the
\* other group.
SeparatedTables(na, nb, low) ==
    {[columns |-> <<"User_ID", "Group", "Task_Completion_Rate">>,
      dtypes |-> [c \in {"User_ID", "Group", "Task_Completion_Rate"} |-> Dtypes[c]],
      rows |-> [r \in 1..(na + nb) |->
                  [User_ID |-> RInt(r),
                   Group |-> IF r <= na THEN "A" ELSE "B",
                   Task_Completion_Rate |->
                      IF r <= na
                      THEN GroupPattern(ka, na, IF low = "A" THEN 0 ELSE MaxGroup + 1)[r]
                      ELSE GroupPattern(kb, nb, IF low = "B" THEN 0 ELSE MaxGroup + 1)[r - na]]]] :
        ka \in {"distinct", "constant", "step"}, kb \in {"distinct", "constant", "step"}}

\* analyze_all_metrics(df) with the default alpha on a table with complete
\* separation
InitSep ==
    /\ raw = NoTable
    /\ \E na \in 1..MaxGroup, nb \in 1..MaxGroup, low \in {"A", "B"} :
          df \in SeparatedTables(na, nb, low)
    /\ alpha = Edges[2]
    /\ section = 0
    /\ metrics = <<>>
    /\ i = 0
    /\ results = EmptyResults
    /\ pc = "analyze"
    /\ InitDown

SpecSep == InitSep /\ [][Next]_vars

\* The values of the end-to-end scenario of the specification.
ScenarioValues == {RInt(10), RInt(12), RInt(20), RInt(22)}

\* The 4-row tables over the scenario's values, any value in any group.
ScenarioTables ==
    {[columns |-> <<"User_ID", "Group", "Task_Completion_Rate">>,
      dtypes |-> [c \in {"User_ID", "Group", "Task_Completion_Rate"} |-> Dtypes[c]],
      rows |-> [r \in 1..4 |->
                  [User_ID |-> RInt(r), Group |-> g[r],
                   Task_Completion_Rate |-> v[r]]]] :
        g \in [1..4 -> {"A", "B"}], v \in [1..4 -> ScenarioValues]}

\* analyze_all_metrics(df) with the default alpha on a scenario table
InitScenario ==
    /\ raw = NoTable
    /\ df \in ScenarioTables
    /\ alpha = Edges[2]
    /\ section = 0
    /\ metrics = <<>>
    /\ i = 0
    /\ results = EmptyResults
    /\ pc = "analyze"
    /\ InitDown

SpecScenario == InitScenario /\ [][Next]_vars


\* The columns of the data file of the pipeline.
MainColumns ==
    <<"User_ID", "Group", "Task_Completion_Rate", "Button_Click_Rate",
      "Plot_Interactions", "Early_Exit_Rate", "Module_Navigation_Depth", "Time_Spent">>

\* What varies between the data files besides Group and
\* Task_Completion_Rate: Button_Click_Rate (1 in every row, or 1 in group A
\* and 2 in group B), Plot_Interactions (missing in every row, or 0 or -1
\* in group A and 1 in group B) and Time_Spent (the same dict in every row,
\* one dict per group, or missing in every row).
MainLayouts ==
    {[button |-> "same", plot |-> "missing", time |-> "same"],
     [button |-> "group", plot |-> "zero", time |-> "group"],
     [button |-> "group", plot |-> "negative", time |-> "missing"]}

\* The data files of n rows: Group and Task_Completion_Rate free in every
\* row, Early_Exit_Rate 1 in every row, Module_Navigation_Depth the row
\* number.
MainTables(n) ==
    {[columns |-> MainColumns,
      dtypes |-> [c \in ColumnSet(MainColumns) |-> Dtypes[c]],
      rows |-> [r \in 1..n |->
                  [User_ID |-> RInt(r),
                   Group |-> g[r],
                   Task_Completion_Rate |-> RInt(v[r]),
                   Button_Click_Rate |->
                      IF layout.button = "same" \/ g[r] = "A" THEN RInt(1) ELSE RInt(2),
                   Plot_Interactions |->
                      CASE layout.plot = "missing" -> NaN
                        [] layout.plot = "zero" -> IF g[r] = "A" THEN RInt(0) ELSE RInt(1)
                        [] OTHER -> IF g[r] = "A" THEN RInt(-1) ELSE RInt(1),
                   Early_Exit_Rate |-> RInt(1),
                   Module_Navigation_Depth |-> RInt(r),
                   Time_Spent |->
                      CASE layout.time = "missing" -> MissingCell
                        [] layout.time = "group" /\ g[r] = "B" ->
                              StrCell("double", "dict",
                                      <<<<"exploratory_analysis", 3>>, <<"other", 1>>>>)
                        [] OTHER ->
                              StrCell("single", "dict",
                                      <<<<"data_upload", 1>>, <<"data_cleaning", 2>>>>)]]] :
        g \in [1..n -> {"A", "B"}], v \in [1..n -> {0, 1}], layout \in MainLayouts}

\* What an earlier run may have left in the results file: nothing, or the
\* results of another data set.
StaleFile ==
    JsonFile([t_test_results |->
                 <<[metric |-> "Error_Rate", test |-> "t-test",
                    group_a_mean |-> RInt(5), group_b_mean |-> RInt(7),
                    difference |-> RInt(2), percent_change |-> RInt(40),
                    t_statistic |-> NegInf, p_value |-> PExact(RZero),
                    effect_size |-> RZero, significant |-> TRUE,
                    sample_size_a |-> 2, sample_size_b |-> 2]>>,
              mann_whitney_results |-> <<MWError("Error_Rate")>>],
             [t_test_results |->
                 <<[metric |-> "str", test |-> "str",
                    group_a_mean |-> "float", group_b_mean |-> "float",
                    difference |-> "float", percent_change |-> "float",
                    t_statistic |-> "float", p_value |-> "float",
                    effect_size |-> "int", significant |-> "bool",
                    sample_size_a |-> "int", sample_size_b |-> "int"]>>,
              mann_whitney_results |->
                 <<[metric |-> "str", test |-> "str", error |-> "str"]>>])

\* the charts an earlier run of another data set left in reports/figures
StaleFigures ==
    {"metrics_overview", "metric_error_rate", "significant_metrics", "statistical_table"}

\* a table row an earlier run or the author wrote
OldRow(metric) ==
    Line("row", <<metric, NumText("num", "", 100, 2), NumText("num", "", 200, 2),
                  NumText("num", "+", 10000, 2), NumText("num", "", 100, 4), "Yes">>)

\* a report with the table and no Visualizations section
PlainReport ==
    [exists |-> TRUE, newline |-> "LF",
     lines |-> <<Line("text", <<"title">>), Line("stats", <<>>), BlankLine,
                 Line("head", <<>>), Line("sep", <<>>),
                 OldRow("Button_Click_Rate"), OldRow("Error_Rate"),
                 BlankLine, Line("h2", <<"conclusion">>), BlankLine>>]
\* one with the table and the section, written with CRLF line ends
WindowsReport ==
    [exists |-> TRUE, newline |-> "CRLF",
     lines |-> <<Line("text", <<"title">>), Line("viz", <<>>), BlankLine,
                 Line("head", <<>>), Line("sep", <<>>), OldRow("Error_Rate"),
                 Line("text", <<"end">>)>>]
\* one without the table
TablelessReport ==
    [exists |-> TRUE, newline |-> "LF",
     lines |-> <<Line("text", <<"title">>), Line("stats", <<>>),
                 Line("h3", <<"summary">>), Line("text", <<"end">>)>>]
\* one with two tables, in which blanks end the separator line of the
\* first and a row of the second
BlanksReport ==
    [exists |-> TRUE, newline |-> "LF",
     lines |-> <<Line("head", <<>>), [Line("sep", <<>>) EXCEPT !.tail = TRUE],
                 OldRow("Error_Rate"), Line("viz", <<>>),
                 Line("head", <<>>), Line("sep", <<>>),
                 [OldRow("Error_Rate") EXCEPT !.tail = TRUE],
                 OldRow("Button_Click_Rate")>>]

\* What the reports directory holds when the pipeline starts: the report
\* (or none), and the results file and charts of an earlier run (or none).
Directories ==
    {[report |-> NoReport, file |-> NoFile, figures |-> {}],
     [report |-> PlainReport, file |-> StaleFile, figures |-> StaleFigures],
     [report |-> WindowsReport, file |-> NoFile, figures |-> {}],
     [report |-> TablelessReport, file |-> StaleFile, figures |-> StaleFigures],
     [report |-> BlanksReport, file |-> NoFile, figures |-> {}]}

\* The pipeline (analyze_ab_test.py, main): load_data on the data file,
\* analyze_all_metrics with the default alpha, save_results, the charts and
\* update_final_report; afterwards update_report_tables.py may be run.
InitMain ==
    /\ raw \in MainTables(MaxMainRows)
    /\ df = NoTable
    /\ alpha = Edges[2]
    /\ section = 0
    /\ metrics = <<>>
    /\ i = 0
    /\ results = EmptyResults
    /\ pc = "load"
    /\ types = EmptyResults
    /\ console = <<>>
    /\ \E dir \in Directories :
          /\ results_file = dir.file
          /\ figures = dir.figures
          /\ report = dir.report
    /\ chart = NotRun
    /\ table = NotRun
    /\ runs = 0
    /\ mains = 0

NextMain ==
    \/ NextLoad
    \/ SaveResults
    \/ CreateCharts
    \/ CreateSignificantMetricsChart
    \/ CreateStatisticalSignificanceTable
    \/ UpdateFinalReport
    \/ UpdateResultsTable

SpecMain == InitMain /\ [][NextMain]_vars

\* analyze_ab_test.py run again on the same data file, with the reports
\* directory as the run before left it: save_results and save_figure write
\* the same files again and every step before update_final_report gives what
\* it gave, so the run is taken up at update_final_report, which reads the
\* report the run before (or update_report_tables.py) wrote.
MainAgain ==
    /\ pc = "done"
    /\ mains < MaxMains
    /\ mains' = mains + 1
    /\ pc' = "tabled"
    /\ UNCHANGED <<raw, df, alpha, section, metrics, i, results>>
    /\ UNCHANGED <<types, console, results_file, report, figures, chart, table, runs>>

\* The data files of the repeated runs: groups A, A, B, B with
\* Task_Completion_Rate 0, 0, 0, 1, in every layout.
AgainTables ==
    {t \in MainTables(MaxMainRows) :
        \A r \in 1..MaxMainRows :
            /\ t.rows[r].Group = (IF r <= 2 THEN "A" ELSE "B")
            /\ t.rows[r].Task_Completion_Rate = (IF r = MaxMainRows THEN RInt(1) ELSE RInt(0))}

InitAgain ==
    /\ raw \in AgainTables
    /\ df = NoTable
    /\ alpha = Edges[2]
    /\ section = 0
    /\ metrics = <<>>
    /\ i = 0
    /\ results = EmptyResults
    /\ pc = "load"
    /\ types = EmptyResults
    /\ console = <<>>
    /\ \E dir \in Directories :
          /\ results_file = dir.file
          /\ figures = dir.figures
          /\ report = dir.report
    /\ chart = NotRun
    /\ table = NotRun
    /\ runs = 0
    /\ mains = 0

NextAgain == NextMain \/ MainAgain

SpecAgain == InitAgain /\ [][NextAgain]_vars

\* ================================================================ claims
TTestFields ==
    {"metric", "test", "group_a_mean", "group_b_mean", "difference",
     "percent_change", "t_statistic", "p_value", "effect_size", "significant",
     "sample_size_a", "sample_size_b"}
MWFields ==
    {"metric", "test", "group_a_median", "group_b_median", "difference",
     "percent_change", "u_statistic", "p_value", "significant",
     "sample_size_a", "sample_size_b"}
ErrorFields == {"metric", "test", "error"}

IsError(r) == "error" \in DOMAIN r
TResults == results.t_test_results
MWResults == results.mann_whitney_results
Done == pc = "analyzed"

\* the rows of df labelled g whose value of metric m is present
PresentRows(g, m) ==
    {r \in 1..Len(df.rows) : df.rows[r]["Group"] = g /\ df.rows[r][m] # NaN}
NPresent(g, m) == Cardinality(PresentRows(g, m))

\* C1: the t-test result of a metric is an error result (metric, test and
\* error marker only) when group A or group B has fewer than 2 present
\* values, and else a result with every numeric field and no error marker.
C1_TTestErrorIffFewerThanTwo ==
    \A k \in 1..Len(TResults) :
        LET r == TResults[k]
            few == NPresent("A", r.metric) < 2 \/ NPresent("B", r.metric) < 2
        IN  /\ r.test = "t-test"
            /\ few => DOMAIN r = ErrorFields
            /\ ~few => DOMAIN r = TTestFields

C1_Witness ==
    /\ Done
    /\ \E k \in 1..Len(TResults) :
          IsError(TResults[k]) /\ NPresent("A", TResults[k].metric) = 1
                               /\ NPresent("B", TResults[k].metric) >= 2
    /\ \E k \in 1..Len(TResults) :
          ~IsError(TResults[k]) /\ NPresent("A", TResults[k].metric) = 2

\* C2: the rank-test result of a metric is an error result exactly when
\* group A or group B has no present value; with exactly 1 value in A and
\* at least 1 in B the t-test result is an error result and the rank-test
\* result is a normal one.
C2_RankTestNeedsOnePerGroup ==
    \A k \in 1..Len(MWResults) :
        LET r == MWResults[k]
            na == NPresent("A", r.metric)
            nb == NPresent("B", r.metric)
        IN  /\ r.test = "mann-whitney"
            /\ IsError(r) <=> (na = 0 \/ nb = 0)
            /\ IsError(r) => DOMAIN r = ErrorFields
            /\ ~IsError(r) => DOMAIN r = MWFields
            /\ (na = 1 /\ nb >= 1) =>
                  /\ DOMAIN TResults[k] = ErrorFields
                  /\ TResults[k].metric = r.metric
                  /\ DOMAIN r = MWFields

C2_Witness ==
    /\ Done
    /\ \E k \in 1..Len(MWResults) :
          /\ NPresent("A", MWResults[k].metric) = 1
          /\ NPresent("B", MWResults[k].metric) >= 1
          /\ IsError(TResults[k])
          /\ ~IsError(MWResults[k])
    /\ \E k \in 1..Len(MWResults) : IsError(MWResults[k])

\* pct is NaN when the reference value a is zero and else the finite
\* number with pct * a = (b - a) * 100
PercentChangeOk(a, b, pct) ==
    /\ a = RZero => IsNaN(pct)
    /\ a # RZero => /\ IsFinite(pct)
                    /\ pct[1] * a[1] * b[2] = (b[1] * a[2] - a[1] * b[2]) * 100 * pct[2]

\* C3: in every non-error result percent_change is NaN exactly when group
\* A's mean (t-test) or median (rank test) is zero, and else the finite
\* number (B - A) / A * 100.
C3_PercentChangeUndefinedIffZero ==
    /\ \A k \in 1..Len(TResults) :
          LET r == TResults[k]
          IN  ~IsError(r) =>
                PercentChangeOk(r.group_a_mean, r.group_b_mean, r.percent_change)
    /\ \A k \in 1..Len(MWResults) :
          LET r == MWResults[k]
          IN  ~IsError(r) =>
                PercentChangeOk(r.group_a_median, r.group_b_median, r.percent_change)

C3_Witness ==
    /\ Done
    /\ \E k \in 1..Len(TResults) :
          /\ ~IsError(TResults[k])
          /\ TResults[k].group_a_mean = RZero
          /\ TResults[k].group_b_mean # RZero
          /\ IsNaN(TResults[k].percent_change)
          /\ IsNaN(MWResults[k].percent_change)
    /\ \E k \in 1..Len(TResults) :
          /\ ~IsError(TResults[k])
          /\ IsFinite(TResults[k].percent_change)
          /\ TResults[k].percent_change # RZero

\* p < a for a p-value [lo, hi]: an exact value is compared itself, an
\* interval lies wholly below a or wholly at or above it.
StrictlyBelow(p, a) ==
    /\ ~IsNaN(p.lo)
    /\ p.lo = p.hi => RLt(p.lo, a)
    /\ p.lo # p.hi => RLe(p.hi, a)
Located(p, a) == p.lo # p.hi => (RLe(p.hi, a) \/ RLe(a, p.lo))

\* C4: in every non-error result of either test significant is true
\* exactly when p_value is strictly below the alpha analyze_all_metrics was
\* given (p_value = alpha is not significant).
C4_SignificantIffPBelowAlpha ==
    \A k \in 1..Len(TResults) :
        /\ ~IsError(TResults[k]) =>
              /\ Located(TResults[k].p_value, alpha)
              /\ TResults[k].significant <=> StrictlyBelow(TResults[k].p_value, alpha)
        /\ ~IsError(MWResults[k]) =>
              /\ Located(MWResults[k].p_value, alpha)
              /\ MWResults[k].significant <=> StrictlyBelow(MWResults[k].p_value, alpha)

C4_Witness ==
    /\ Done
    /\ \E k \in 1..Len(MWResults) :
          /\ ~IsError(MWResults[k])
          /\ MWResults[k].p_value = PExact(alpha)
          /\ ~MWResults[k].significant

\* the positions of df's number columns other than User_ID
MetricPositions ==
    {c \in 1..Len(df.columns) :
        df.dtypes[df.columns[c]] = "number" /\ df.columns[c] # "User_ID"}

\* C5: the two result lists are aligned and hold, for the k metrics handled
\* so far, the first k number columns other than User_ID in table-column
\* order, error results included; on return k is the number of such columns.
C5_OneEntryPerMetricInColumnOrder ==
    pc # "analyze" =>
        /\ Len(TResults) = Len(MWResults)
        /\ Len(TResults) <= Cardinality(MetricPositions)
        /\ Done => Len(TResults) = Cardinality(MetricPositions)
        /\ \A k \in 1..Len(TResults) :
              \E c \in MetricPositions :
                  /\ Cardinality({b \in MetricPositions : b < c}) = k - 1
                  /\ TResults[k].metric = df.columns[c]
                  /\ MWResults[k].metric = df.columns[c]

C5_Witness ==
    /\ Done
    /\ Len(TResults) = 2
    /\ IsError(TResults[1]) /\ IsError(MWResults[1])
    /\ ~IsError(TResults[2]) /\ ~IsError(MWResults[2])
    /\ TResults[1].metric = "Task_Completion_Rate"

RECURSIVE SumCells(_, _)
\* the sum of the (integer) values of metric m over the rows in R
SumCells(R, m) ==
    IF R = {} THEN 0
    ELSE LET r == CHOOSE x \in R : TRUE
         IN  df.rows[r][m][1] + SumCells(R \ {r}, m)

\* x is the median of the values of metric m over the rows in R (R # {})
IsMedian(x, R, m) ==
    LET below == {r \in R : RLt(df.rows[r][m], x)}
        above == {r \in R : RLt(x, df.rows[r][m])}
    IN  /\ 2 * Cardinality(below) <= Cardinality(R)
        /\ 2 * Cardinality(above) <= Cardinality(R)
        /\ \/ \E r \in R : df.rows[r][m] = x
           \/ /\ Cardinality(below) = Cardinality(above)
              /\ \E lo \in below, hi \in above :
                    /\ \A r \in below : RLe(df.rows[r][m], df.rows[lo][m])
                    /\ \A r \in above : RLe(df.rows[hi][m], df.rows[r][m])
                    /\ 2 * x[1] = (df.rows[lo][m][1] + df.rows[hi][m][1]) * x[2]

\* C6: missing values are dropped, not counted as zero: the sample sizes
\* are the numbers of rows labelled A and B with a present value, the means
\* and medians are those of exactly these values, and the insufficient-data
\* thresholds apply to these counts.
C6_MissingValuesDropped ==
    \A k \in 1..Len(TResults) :
        LET t == TResults[k]
            w == MWResults[k]
            A == PresentRows("A", t.metric)
            B == PresentRows("B", t.metric)
        IN  /\ IsError(t) <=> (Cardinality(A) < 2 \/ Cardinality(B) < 2)
            /\ IsError(w) <=> (Cardinality(A) < 1 \/ Cardinality(B) < 1)
            /\ ~IsError(t) =>
                  /\ t.sample_size_a = Cardinality(A)
                  /\ t.sample_size_b = Cardinality(B)
                  /\ t.group_a_mean[1] * Cardinality(A) = SumCells(A, t.metric) * t.group_a_mean[2]
                  /\ t.group_b_mean[1] * Cardinality(B) = SumCells(B, t.metric) * t.group_b_mean[2]
            /\ ~IsError(w) =>
                  /\ w.sample_size_a = Cardinality(A)
                  /\ w.sample_size_b = Cardinality(B)
                  /\ IsMedian(w.group_a_median, A, t.metric)
                  /\ IsMedian(w.group_b_median, B, t.metric)

C6_Witness ==
    /\ Done
    /\ \E k \in 1..Len(TResults) :
          /\ ~IsError(TResults[k])
          /\ \E r \in 1..Len(df.rows) :
                df.rows[r]["Group"] = "A" /\ IsNaN(df.rows[r][TResults[k].metric])
          /\ TResults[k].sample_size_a + TResults[k].sample_size_b < Len(df.rows)

\* a Time_Spent cell that is missing or a string that cannot be parsed
Unparsable(cell) ==
    cell.kind = "nan" \/ cell.json = "invalid"
Loaded == pc \notin {"load", "sections", "raised"}

\* C7: load_data returns a table for every file; in it Total_Time_Spent is
\* NaN for a row whose Time_Spent is missing or cannot be parsed, and the
\* sum of the dict's values for a row whose Time_Spent is a dict.
C7_UnparsableTimeGivesMissingTotal ==
    /\ pc # "raised"
    /\ Loaded =>
          \A r \in 1..Len(raw.rows) :
              LET cell == raw.rows[r]["Time_Spent"]
              IN  /\ Unparsable(cell) => IsNaN(df.rows[r]["Total_Time_Spent"])
                  /\ cell.json = "dict" =>
                        df.rows[r]["Total_Time_Spent"] = SumValues(cell.items)

\* n * (sum of squares) - (sum)^2 of the values of metric m over the rows
\* in R, n = |R|: n times the sum of squared deviations from the mean
RECURSIVE SumSquares(_, _)
SumSquares(R, m) ==
    IF R = {} THEN 0
    ELSE LET r == CHOOSE x \in R : TRUE
         IN  df.rows[r][m][1] * df.rows[r][m][1] + SumSquares(R \ {r}, m)
NTimesSS(R, m) == Cardinality(R) * SumSquares(R, m) - SumCells(R, m) * SumCells(R, m)

\* df with the labels A and B exchanged
SwapGroups(d) ==
    [d EXCEPT !.rows =
        [r \in 1..Len(d.rows) |->
            [d.rows[r] EXCEPT !["Group"] =
                IF @ = "A" THEN "B" ELSE IF @ = "B" THEN "A" ELSE @]]]

\* C8: effect_size is |mean_B - mean_A| over the (n-1)-weighted pooled
\* standard deviation and 0 when that is 0, never negative; with the labels
\* A and B exchanged run_t_test returns the same effect_size, the negated
\* difference and the means and sample sizes exchanged.
\* (effect_size holds the square e of the code's value; the pooled variance
\* is pv = (nb * QA + na * QB) / (na * nb * (na + nb - 2)), QX = NTimesSS.)
C8_EffectSizeSymmetric ==
    \A k \in 1..Len(TResults) :
        LET r == TResults[k]
            A == PresentRows("A", r.metric)
            B == PresentRows("B", r.metric)
            na == Cardinality(A)
            nb == Cardinality(B)
            pvnum == nb * NTimesSS(A, r.metric) + na * NTimesSS(B, r.metric)
            pvden == na * nb * (na + nb - 2)
            e == r.effect_size
            d == r.difference
        IN  ~IsError(r) =>
              /\ e[1] >= 0 /\ e[2] > 0
              /\ pvnum = 0 => e = RZero
              /\ pvnum # 0 => e[1] * pvnum * d[2] * d[2] = d[1] * d[1] * e[2] * pvden
              /\ \A s \in RunTTest(SwapGroups(df), r.metric, alpha) :
                    /\ ~IsError(s)
                    /\ s.effect_size = e
                    /\ s.difference = RNeg(d)
                    /\ s.group_a_mean = r.group_b_mean
                    /\ s.group_b_mean = r.group_a_mean
                    /\ s.sample_size_a = r.sample_size_b
                    /\ s.sample_size_b = r.sample_size_a

C8_Witness ==
    /\ Done
    /\ \E k \in 1..Len(TResults) :
          /\ ~IsError(TResults[k])
          /\ TResults[k].effect_size = RZero
          /\ TResults[k].difference # RZero
    /\ \E k \in 1..Len(TResults) :
          /\ ~IsError(TResults[k])
          /\ RLt(RZero, TResults[k].effect_size)
          /\ RLt(RZero, TResults[k].difference)
          /\ TResults[k].sample_size_a # TResults[k].sample_size_b

\* groups A and B hold the same values of metric m (as multisets)
IdenticalGroups(m) ==
    \A v \in NumberCells \cup {RInt(r) : r \in 1..Len(df.rows)} :
        Cardinality({r \in PresentRows("A", m) : df.rows[r][m] = v})
            = Cardinality({r \in PresentRows("B", m) : df.rows[r][m] = v})
\* every present value of metric m in groups A and B is the same constant
ConstantGroups(m) ==
    \A r, q \in PresentRows("A", m) \cup PresentRows("B", m) :
        df.rows[r][m] = df.rows[q][m]

AllBelow(g, h, m) ==
    \A r \in PresentRows(g, m), q \in PresentRows(h, m) :
        RLt(df.rows[r][m], df.rows[q][m])
Separated(m) == AllBelow("A", "B", m) \/ AllBelow("B", "A", m)
\* no value of metric m occurs twice in groups A and B
Untied(m) ==
    \A r, q \in PresentRows("A", m) \cup PresentRows("B", m) :
        r # q => df.rows[r][m] # df.rows[q][m]

RECURSIVE Binomial(_, _)
Binomial(n, k) ==
    IF k = 0 \/ k = n THEN 1 ELSE Binomial(n - 1, k - 1) + Binomial(n - 1, k)

PairOf(g, m, x, y) ==
    /\ Cardinality(PresentRows(g, m)) = 2
    /\ {df.rows[r][m] : r \in PresentRows(g, m)} = {RInt(x), RInt(y)}
\* df is the scenario table: A = [10, 12] and B = [20, 22], in any row order
IsScenario ==
    /\ Len(df.rows) = 4
    /\ PairOf("A", "Task_Completion_Rate", 10, 12)
    /\ PairOf("B", "Task_Completion_Rate", 20, 22)
\* the t-test part of the scenario: means 11 and 21, difference 10,
\* percent_change 90.91 to 2 decimals, p < 0.05, significant, sizes 2 and 2
ScenarioTTest(t) ==
    /\ ~IsError(t)
    /\ t.group_a_mean = RInt(11)
    /\ t.group_b_mean = RInt(21)
    /\ t.difference = RInt(10)
    /\ RLe(Rat(90905, 1000), t.percent_change)
    /\ RLt(t.percent_change, Rat(90915, 1000))
    /\ StrictlyBelow(t.p_value, Rat(1, 20))
    /\ t.significant
    /\ t.sample_size_a = 2 /\ t.sample_size_b = 2
\* the rank-test part of the scenario: medians 11 and 21, difference 10
ScenarioMedians(w) ==
    /\ ~IsError(w)
    /\ w.group_a_median = RInt(11)
    /\ w.group_b_median = RInt(21)
    /\ w.difference = RInt(10)

\* C11 as stated: on the scenario table the t-test gives means 11 and 21,
\* difference 10, percent_change 90.91, p < 0.05 and significant = true, and
\* the rank test gives medians 11 and 21, difference 10 and the same
\* significance verdict as the t-test.
C11_ScenarioAsClaimed ==
    (Done /\ IsScenario) =>
        /\ ScenarioTTest(TResults[1])
        /\ ScenarioMedians(MWResults[1])
        /\ MWResults[1].significant = TResults[1].significant

\* C11 (amended): on the scenario table the t-test gives means 11 and 21,
\* difference 10, percent_change 90.91, p < 0.05 and significant = true; the
\* rank test gives medians 11 and 21, difference 10 and U = 0, but its exact
\* two-sided p-value is 1/3 (2 of the 6 ways to split 4 values), so its
\* verdict is significant = false.
C11_Scenario ==
    (Done /\ IsScenario) =>
        /\ ScenarioTTest(TResults[1])
        /\ ScenarioMedians(MWResults[1])
        /\ MWResults[1].u_statistic = RZero
        /\ MWResults[1].p_value = PExact(Rat(1, 3))
        /\ ~MWResults[1].significant

C11_Witness ==
    /\ Done
    /\ IsScenario
    /\ TResults[1].significant
    /\ ~MWResults[1].significant
    /\ df.rows[1]["Group"] = "B"

\* the types of plain Python values
PlainTypes == {"str", "int", "float", "bool"}

\* every value of a ResultSet of types has a plain type
AllPlain(ts) ==
    \A k \in DOMAIN ts : \A j \in 1..Len(ts[k]) : \A f \in DOMAIN ts[k][j] :
        ts[k][j][f] \in PlainTypes

\* C12: save_results writes a complete document with the two arrays
\* t_test_results and mann_whitney_results whose entries, keys, order and
\* values are those of the in-memory ResultSet; every value in it has a plain
\* type (no numpy type is left by convert_np), and convert_np on the
\* converted structure changes nothing.
C12_SaveResults ==
    [][SaveResults =>
        /\ pc' = "saved"
        /\ results_file'.exists /\ results_file'.valid
        /\ DOMAIN results_file'.values = {"t_test_results", "mann_whitney_results"}
        /\ results_file'.values = results
        /\ \A k \in DOMAIN results :
            /\ Len(results_file'.types[k]) = Len(results[k])
            /\ \A j \in 1..Len(results[k]) :
                  DOMAIN results_file'.types[k][j] = DOMAIN results[k][j]
        /\ AllPlain(ConvertNp(types))
        /\ AllPlain(results_file'.types)
        /\ ConvertNp(ConvertNp(types)) = ConvertNp(types)]_vars

\* a ResultSet with numpy values (a result that is no error result, with
\* its np.bool_ verdict and np.float64 statistics) has been saved
C12_Witness ==
    /\ pc = "saved"
    /\ results_file.valid
    /\ \E j \in 1..Len(types.t_test_results) :
        /\ types.t_test_results[j].test = "str"
        /\ "significant" \in DOMAIN types.t_test_results[j]
        /\ types.t_test_results[j].significant = "np.bool_"
        /\ types.t_test_results[j].p_value = "np.float64"
        /\ results_file.types.t_test_results[j].significant = "bool"
        /\ results_file.types.t_test_results[j].p_value = "float"
    /\ \E j \in 1..Len(types.mann_whitney_results) :
        "error" \in DOMAIN types.mann_whitney_results[j]



\* the complete results documents of a state: the ResultSet in memory once
\* analyze_all_metrics has returned it, and the one in the results file
Documents ==
    (IF pc \in {"analyzed", "saved", "charts", "charted", "tabled", "done"}
     THEN {[values |-> results, types |-> types]} ELSE {})
    \cup (IF results_file.exists /\ results_file.valid
          THEN {[values |-> results_file.values, types |-> results_file.types]}
          ELSE {})

\* the key metrics with a t-test result that is no error result, in the
\* order of key_metrics
RowMetrics(t_test_results) ==
    LET keep == [m \in 1..Len(key_metrics) |->
                    \E k \in 1..Len(t_test_results) :
                        /\ t_test_results[k].metric = key_metrics[m]
                        /\ "error" \notin DOMAIN t_test_results[k]]
    IN  SelectSeq2(key_metrics, keep, 1)

\* text is x written with the given number of decimals: the nearest numeral
\* (either neighbour in a tie), 'nan' or 'inf' for a value that is no number
Shows(text, x, decimals) ==
    IF IsNaN(x) THEN text.kind = "nan"
    ELSE IF IsInf(x) THEN text.kind = "inf"
    ELSE /\ text.kind = "num"
         /\ text.decimals = decimals
         /\ 2 * AbsInt(text.units * x[2] - AbsInt(x[1]) * Pow10(decimals)) <= x[2]

\* the sign character in front of a text that shows x
MinusOnlySign(text, x) ==
    text.sign = IF ~IsNaN(x) /\ x[1] < 0 THEN "-" ELSE ""
PlusWhenPositive(text, x) ==
    text.sign = IF IsNaN(x) THEN ""
                ELSE IF x[1] > 0 THEN "+"
                ELSE IF x[1] < 0 THEN "-" ELSE ""

\* text shows a p-value of the record p with 4 decimals
ShowsPValue(text, p) ==
    IF IsNaN(p.lo) THEN text.kind = "nan"
    ELSE /\ text.kind = "num" /\ text.decimals = 4 /\ text.sign = ""
         /\ 2 * (p.lo[1] * Pow10(4) - text.units * p.lo[2]) <= p.lo[2]
         /\ 2 * (text.units * p.hi[2] - p.hi[1] * Pow10(4)) <= p.hi[2]

\* the row of the report table shows the t-test result
RowShows(row, result) ==
    /\ row.kind = "row" /\ ~row.tail /\ Len(row.cells) = 6
    /\ row.cells[1] = result.metric
    /\ Shows(row.cells[2], result.group_a_mean, 2)
    /\ MinusOnlySign(row.cells[2], result.group_a_mean)
    /\ Shows(row.cells[3], result.group_b_mean, 2)
    /\ MinusOnlySign(row.cells[3], result.group_b_mean)
    /\ Shows(row.cells[4], result.percent_change, 2)
    /\ PlusWhenPositive(row.cells[4], result.percent_change)
    /\ ShowsPValue(row.cells[5], result.p_value)
    /\ row.cells[6] = IF result.significant THEN "Yes" ELSE "No"

ErrorMetrics ==
    {results.t_test_results[k].metric :
        k \in {j \in 1..Len(results.t_test_results) :
                  "error" \in DOMAIN results.t_test_results[j]}}

\* C14: a metric with an error-tagged result is in no list of significant
\* findings (the console summary, the charts of single metrics, the rows of
\* the significant-metrics chart) and has no row, with 'No' or otherwise, in
\* the rows built for the report table or in the statistical significance
\* table; the report holds no 'No' row of it.
C14_ErrorIsNoVerdict ==
    \A m \in ErrorMetrics :
        /\ \A k \in 1..Len(console) : console[k] # m
        /\ MetricFigure[m] \notin figures
        /\ \A k \in 1..Len(chart.rows) : chart.rows[k].Metric # Spaced[m]
        /\ \A k \in 1..Len(table.rows) : table.rows[k].Metric # Spaced[m]
        /\ \A doc \in Documents :
              doc.values = results =>
                \A table_rows \in TableRows(doc.values.t_test_results,
                                            doc.types.t_test_results) :
                    \A r \in 1..Len(table_rows) : table_rows[r].cells[1] # m
        /\ \A r \in 1..Len(report.lines) :
              report.lines[r].kind = "row" =>
                ~(report.lines[r].cells[1] = m /\ report.lines[r].cells[6] = "No")

\* the pipeline has finished with an error result for the key metric
\* Plot_Interactions and results for others: a console summary, a
\* significant-metrics chart, a significance table and report rows exist
C14_Witness ==
    /\ pc = "done"
    /\ "Plot_Interactions" \in ErrorMetrics
    /\ console # <<>>
    /\ chart.state = "figure" /\ chart.rows # <<>>
    /\ table.state = "figure"
    /\ \E k \in 1..Len(table.rows) : table.rows[k].Significant = "No"
    /\ \E r \in 1..Len(report.lines) :
        /\ report.lines[r].kind = "row"
        /\ report.lines[r].cells[6] = "No"
        /\ report.lines[r].cells[1] = "Early_Exit_Rate"



AfterSave == pc \in {"saved", "charts", "charted", "tabled", "done"}

\* C16: in a run of the pipeline the results file holds exactly the
\* ResultSet of this run from save_results on, whatever an earlier run left
\* in it, and each emitter that has run has read from the file the results
\* the run computed and passes to update_final_report.
C16_EmittersReadThisRun ==
    /\ AfterSave =>
        /\ results_file.exists /\ results_file.valid
        /\ results_file.values = results
    /\ chart.state # "not run" => chart.source = "file" /\ chart.read = results
    /\ table.state # "not run" => table.source = "file" /\ table.read = results

\* the pipeline has run to its end where an earlier run had left the results
\* and charts of another data set, and both emitters have returned a figure
C16_Witness ==
    /\ pc = "done"
    /\ "metric_error_rate" \in figures
    /\ chart.state = "figure"
    /\ table.state = "figure"
    /\ \A k \in 1..Len(results.t_test_results) :
          results.t_test_results[k].metric # "Error_Rate"



\* The table d with its columns in reverse order and every cell of the
\* numeric columns other than the metric replaced, by 7 or by a missing
\* value.
OtherColumnsChanged(d, metric, missing) ==
    [columns |-> [k \in 1..Len(d.columns) |-> d.columns[Len(d.columns) + 1 - k]],
     dtypes |-> d.dtypes,
     rows |-> [r \in 1..Len(d.rows) |->
                [c \in DOMAIN d.rows[r] |->
                    IF c \notin {"Group", metric} /\ d.dtypes[c] = "number"
                    THEN (IF missing THEN NaN ELSE RInt(7))
                    ELSE d.rows[r][c]]]]

\* C17: the t-test and rank-test results of a metric are those of the table
\* with every other numeric column overwritten and the columns (so the order of
\* the metrics) reversed; a step of analyze_all_metrics changes neither the
\* table nor the results of the metrics before; and the ResultSet it
\* returns is, entry by entry, what the two tests give on the table alone.
C17_MetricResultsIndependent ==
    [][/\ (SelectMetrics \/ AnalyzeMetric \/ ReturnResults) => df' = df
       /\ AnalyzeMetric =>
            \A missing \in BOOLEAN :
            LET metric == metrics[i + 1]
                other == OtherColumnsChanged(df, metric, missing)
            IN  /\ RunTTest(other, metric, alpha) = RunTTest(df, metric, alpha)
                /\ RunMannWhitney(other, metric, alpha) = RunMannWhitney(df, metric, alpha)
                /\ results'.t_test_results[i + 1] \in RunTTest(other, metric, alpha)
                /\ results'.mann_whitney_results[i + 1]
                        \in RunMannWhitney(other, metric, alpha)
                /\ \E k \in 1..Len(metrics) :
                        NumericMetrics(other)[k] = metric
                /\ SubSeq(results'.t_test_results, 1, i) = results.t_test_results
                /\ SubSeq(results'.mann_whitney_results, 1, i)
                        = results.mann_whitney_results
       /\ ReturnResults =>
            /\ Len(results.t_test_results) = Len(NumericMetrics(df))
            /\ \A k \in 1..Len(results.t_test_results) :
                /\ results.t_test_results[k]
                        \in RunTTest(df, NumericMetrics(df)[k], alpha)
                /\ results.mann_whitney_results[k]
                        \in RunMannWhitney(df, NumericMetrics(df)[k], alpha)]_vars

\* analyze_all_metrics has returned results for a table in which other
\* columns hold missing values: Task_Completion_Rate has a t-test result
\* while Plot_Interactions and a time column have none
C17_Witness ==
    /\ pc = "analyzed"
    /\ \E k \in 1..Len(results.t_test_results) :
        /\ results.t_test_results[k].metric = "Task_Completion_Rate"
        /\ "error" \notin DOMAIN results.t_test_results[k]
    /\ \E k \in 1..Len(results.t_test_results) :
        /\ results.t_test_results[k].metric = "Plot_Interactions"
        /\ "error" \in DOMAIN results.t_test_results[k]
    /\ \E r \in 1..Len(df.rows) : IsNaN(df.rows[r]["Time_exploratory_analysis"])



\* the p-value a row of the significance table displays, as a number
Displayed(row) == ParseFloat(row.PValue)

\* C18: the rows create_statistical_significance_table returns have every
\* significant row before every row that is not, and within each of the two
\* blocks no row displays a smaller p-value than a row before it; the
\* ResultSet in memory and the saved document are in column order.
C18_TableSortedAsClaimed ==
    /\ table.state = "figure" =>
        \A k \in 1..Len(table.rows) : \A j \in (k + 1)..Len(table.rows) :
            /\ table.rows[j].Significant = "Yes" => table.rows[k].Significant = "Yes"
            /\ table.rows[j].Significant = table.rows[k].Significant
                  => ~FloatLt(Displayed(table.rows[j]), Displayed(table.rows[k]))
    /\ AfterSave =>
        /\ MetricsOf(results.t_test_results) = NumericMetrics(df)
        /\ MetricsOf(results_file.values.t_test_results) = NumericMetrics(df)
        /\ MetricsOf(results_file.values.mann_whitney_results) = NumericMetrics(df)



\* the t-test results in memory that are no error results
Verdicts ==
    {results.t_test_results[k] :
        k \in {j \in 1..Len(results.t_test_results) :
                  "error" \notin DOMAIN results.t_test_results[j]}}

\* C19: for every t-test result that is no error result, the 'Change' of
\* its row in the significance table shows the percent_change of run_t_test
\* (2 decimals, the same sign) and the 'Percentage Change' of its row in
\* the significant-metrics chart equals it, when the mean of group A is not
\* zero; when it is zero both show an undefined value (NaN), not a number.
C19_EmittersAgreeAsClaimed ==
    \A result \in Verdicts :
        /\ \A k \in 1..Len(table.rows) :
              table.rows[k].Metric = Spaced[result.metric] =>
                IF result.group_a_mean = RZero
                THEN table.rows[k].Change.kind = "nan"
                ELSE /\ Shows(table.rows[k].Change, result.percent_change, 2)
                     /\ (table.rows[k].Change.sign = "-") = (result.percent_change[1] < 0)
        /\ \A k \in 1..Len(chart.rows) :
              chart.rows[k].Metric = Spaced[result.metric] =>
                IF result.group_a_mean = RZero
                THEN IsNaN(chart.rows[k].change)
                ELSE chart.rows[k].change = result.percent_change



\* The last old table row of the table whose header is at line h: the end
\* of the row lines that follow the separator line (h + 1 if none does).
LastOldRow(lines, h) ==
    CHOOSE e \in (h + 1)..Len(lines) :
        /\ \A j \in (h + 2)..e : lines[j].kind = "row"
        /\ e = Len(lines) \/ lines[e + 1].kind # "row"

\* new is old with the rows of its first table replaced by one of the
\* lists of rows (by nothing or an empty line, if the list is empty) and
\* nothing else changed
OnlyRowsReplaced(old, new, lists) ==
    LET h == FindTable(old)
        e == LastOldRow(old, h)
        before == SubSeq(old, 1, h + 1)
        after == SubSeq(old, e + 1, Len(old))
    IN  \E table_rows \in lists :
            \/ new = before \o table_rows \o after
            \/ table_rows = <<>> /\ new = before \o <<BlankLine>> \o after

\* C20: when the header is found, update_results_table and
\* update_final_report (on a report that has its Visualizations section)
\* write the report with the rows after the header replaced and the header
\* and all lines before it and after the last old row as they were; when it
\* is not found, update_results_table leaves the report as it is.
C20_OnlyTableRowsReplacedAsClaimed ==
    [][/\ (UpdateResultsTable /\ report.exists
                /\ results_file.exists /\ results_file.valid) =>
            IF FindTable(report.lines) = 0 THEN report' = report
            ELSE OnlyRowsReplaced(report.lines, report'.lines,
                                  TableRows(results_file.values.t_test_results,
                                            results_file.types.t_test_results))
       /\ (UpdateFinalReport /\ report.exists /\ HasVisualizations(report.lines)
                /\ FindTable(report.lines) # 0) =>
            OnlyRowsReplaced(report.lines, report'.lines,
                             TableRows(results.t_test_results, types.t_test_results))]_vars



\* C21: a run of update_results_table that finds the header writes a report
\* on which a second run with the same results changes nothing: the header
\* is found again and replacing the rows by the same rows gives the same
\* lines, also when the results give no rows at all.
C21_UpdateIdempotentAsClaimed ==
    [][(UpdateResultsTable /\ report.exists /\ results_file.exists
            /\ results_file.valid /\ FindTable(report.lines) # 0) =>
         \A table_rows \in TableRows(results_file.values.t_test_results,
                                     results_file.types.t_test_results) :
            report'.lines = ReplaceTable(report.lines, table_rows) =>
                /\ FindTable(report'.lines) # 0
                /\ ReplaceTable(report'.lines, table_rows) = report'.lines]_vars



\* the number of lines of a kind in a report
CountKind(lines, kind) == Cardinality({k \in 1..Len(lines) : lines[k].kind = kind})

\* C22: every run of update_final_report on a report leaves it with at most
\* one '## Visualizations' heading: a run that finds no heading inserts
\* exactly one, and a run that finds the heading adds no heading, image or
\* other line of the section.
C22_OneVisualizationsSection ==
    [][(UpdateFinalReport /\ report.exists) =>
        /\ CountKind(report'.lines, "viz") <= 1
        /\ ~HasVisualizations(report.lines) => CountKind(report'.lines, "viz") = 1
        /\ HasVisualizations(report.lines) =>
            \A kind \in {"viz", "image", "h2", "h3", "stats", "text"} :
                CountKind(report'.lines, kind) = CountKind(report.lines, kind)]_vars

\* update_final_report has run on the report for the third time; the first
\* run inserted the section with its images
C22_Witness ==
    /\ pc = "done"
    /\ mains = 2
    /\ CountKind(report.lines, "viz") = 1
    /\ CountKind(report.lines, "image") > 0
    /\ CountKind(report.lines, "stats") = 1



\* every t-test result of this run is error-tagged
AllErrorTagged ==
    /\ results.t_test_results # <<>>
    /\ \A k \in 1..Len(results.t_test_results) :
          "error" \in DOMAIN results.t_test_results[k]

\* C23: when every metric's t-test result is error-tagged the visualization
\* step still completes: create_significant_metrics_chart returns no chart,
\* and create_statistical_significance_table returns a table with zero rows,
\* which is saved, instead of failing.
C23_NoDataVisualizationCompletesAsClaimed ==
    [][AllErrorTagged =>
        /\ CreateSignificantMetricsChart =>
              (chart'.state = "none" /\ pc' = "charted")
        /\ CreateStatisticalSignificanceTable =>
              (/\ table'.state = "figure"
               /\ table'.rows = <<>>
               /\ "statistical_table" \in figures'
               /\ pc' = "tabled")]_vars

====
